---- MODULE Spec2Model ----
(***************************************************************************)
(* Model of ragflow-knowledge-mcp-server: the property resolver, the       *)
(* configuration loader, the tool registry and the dispatch pipeline.      *)
(*                                                                         *)
(* Text is a sequence of one-character strings, so that strip() and        *)
(* lower() act on characters.  A Python value is a record                  *)
(* [t, b, n, s]: t is the type tag ("absent" for a key that is not in a    *)
(* dict, "none" for None), b the bool, n the number (a float is kept in    *)
(* hundredths: 0.5 is 50), s the text.                                     *)
(***************************************************************************)
EXTENDS Integers, Sequences, FiniteSets, TLC

VARIABLES
    phase,        \* serve(): "constructed", "serving" (load returned), "failed" (load raised)
    document,     \* the YAML document handed to load (None before load)
    properties,   \* MCPServerProperties: the server-wide fields
    datasets,     \* MCPServerProperties.datasets: insertion-ordered <<[key, ds]>>
    tools,        \* the last answer of list_tools
    call,         \* the tool invocation in progress or last finished
    requests,     \* outbound HTTP requests issued by the current invocation
    resolved      \* the last property resolution: its inputs and its result

vars == <<phase, document, properties, datasets, tools, call, requests, resolved>>

-----------------------------------------------------------------------------
(* Bounds *)

MaxEntries == 2      \* dataset entries in a document
MaxChunks == 3       \* chunks in a downstream retrieval answer

-----------------------------------------------------------------------------
(* Python values *)

Val(t, b, n, s) == [t |-> t, b |-> b, n |-> n, s |-> s]
Absent == Val("absent", FALSE, 0, <<>>)
None == Val("none", FALSE, 0, <<>>)
B(x) == Val("bool", x, 0, <<>>)
I(x) == Val("int", FALSE, x, <<>>)
F(x) == Val("float", FALSE, x, <<>>)
S(x) == Val("str", FALSE, 0, x)

IsNone(v) == v.t = "none"
IsStr(v) == v.t = "str"
IsBool(v) == v.t = "bool"
\* isinstance(v, int): bool is a subclass of int
IsInt(v) == v.t \in {"int", "bool"}
IsFloat(v) == v.t = "float"
\* the number a value compares as (True is 1, a float is in hundredths)
Num(v) == IF v.t = "bool" THEN (IF v.b THEN 100 ELSE 0)
          ELSE IF v.t = "int" THEN v.n * 100 ELSE v.n
\* the integer an int or a bool is used as (len(), slices, shifts)
IntOf(v) == IF v.t = "bool" THEN (IF v.b THEN 1 ELSE 0) ELSE v.n
\* `not v`
Falsy(v) == \/ v.t = "none"
            \/ v.t = "bool" /\ ~v.b
            \/ v.t \in {"int", "float"} /\ v.n = 0
            \/ v.t = "str" /\ v.s = <<>>

\* dict.get(key, default) on a record whose missing keys hold Absent
Get(d, key, default) == IF d[key].t = "absent" THEN default ELSE d[key]

-----------------------------------------------------------------------------
(* Text *)

IsSpace(c) == c = " "

RECURSIVE LStrip(_)
LStrip(s) == IF s # <<>> /\ IsSpace(Head(s)) THEN LStrip(Tail(s)) ELSE s

RECURSIVE RStrip(_)
RStrip(s) == IF s # <<>> /\ IsSpace(s[Len(s)]) THEN RStrip(SubSeq(s, 1, Len(s) - 1)) ELSE s

\* str.strip()
Strip(s) == RStrip(LStrip(s))

Uppers == <<"A","B","C","D","E","F","G","H","I","J","K","L","M","N","O","P","Q","R","S","T","U","V","W","X","Y","Z">>
Lowers == <<"a","b","c","d","e","f","g","h","i","j","k","l","m","n","o","p","q","r","s","t","u","v","w","x","y","z">>

LowerChar(c) == IF \E i \in 1..26 : Uppers[i] = c
                THEN Lowers[CHOOSE i \in 1..26 : Uppers[i] = c] ELSE c

\* str.lower()
Lower(s) == [i \in 1..Len(s) |-> LowerChar(s[i])]

Digits == <<"0","1","2","3","4","5","6","7","8","9">>
IsDigit(c) == \E i \in 1..10 : Digits[i] = c
DigitVal(c) == (CHOOSE i \in 1..10 : Digits[i] = c) - 1

RECURSIVE NatToStr(_)
NatToStr(n) == IF n < 10 THEN <<Digits[n + 1]>>
               ELSE NatToStr(n \div 10) \o <<Digits[(n % 10) + 1]>>

\* str(int)
IntToStr(n) == IF n < 0 THEN <<"-">> \o NatToStr(0 - n) ELSE NatToStr(n)

\* str(float) of a value kept in hundredths: 250 is "2.5", 6000 is "60.0"
FloatToStr(h) ==
    LET a == IF h < 0 THEN 0 - h ELSE h
        frac == a % 100
        fs == IF frac % 10 = 0 THEN <<Digits[(frac \div 10) + 1]>>
              ELSE <<Digits[(frac \div 10) + 1], Digits[(frac % 10) + 1]>>
    IN (IF h < 0 THEN <<"-">> ELSE <<>>) \o NatToStr(a \div 100) \o <<".">> \o fs

\* str(value)
PyStr(v) == CASE v.t = "str" -> v.s
              [] v.t = "int" -> IntToStr(v.n)
              [] v.t = "float" -> FloatToStr(v.n)
              [] v.t = "bool" -> IF v.b THEN <<"T","r","u","e">> ELSE <<"F","a","l","s","e">>
              [] OTHER -> <<"N","o","n","e">>

RECURSIVE DigitsVal(_)
DigitsVal(s) == IF s = <<>> THEN 0
                ELSE DigitsVal(SubSeq(s, 1, Len(s) - 1)) * 10 + DigitVal(s[Len(s)])

AllDigits(s) == s # <<>> /\ \A i \in 1..Len(s) : IsDigit(s[i])

Unsigned(s) == IF s # <<>> /\ Head(s) \in {"-", "+"} THEN Tail(s) ELSE s
Sign(s) == IF s # <<>> /\ Head(s) = "-" THEN 0 - 1 ELSE 1

\* int(text): None stands for ValueError
ParseInt(s) == LET u == Unsigned(Strip(s))
               IN IF AllDigits(u) THEN I(Sign(Strip(s)) * DigitsVal(u)) ELSE None

DotAt(s) == IF \E i \in 1..Len(s) : s[i] = "." THEN CHOOSE i \in 1..Len(s) : s[i] = "." ELSE 0

\* float(text) for decimal text with at most two decimals, in hundredths;
\* None stands for ValueError
ParseFloat(s) ==
    LET t == Strip(s)
        u == Unsigned(t)
        d == DotAt(u)
        ip == IF d = 0 THEN u ELSE SubSeq(u, 1, d - 1)
        fp == IF d = 0 THEN <<>> ELSE SubSeq(u, d + 1, Len(u))
        ok == /\ u # <<>>
              /\ ip = <<>> \/ AllDigits(ip)
              /\ fp = <<>> \/ (AllDigits(fp) /\ Len(fp) <= 2)
              /\ ip # <<>> \/ fp # <<>>
        fv == IF fp = <<>> THEN 0 ELSE IF Len(fp) = 1 THEN DigitVal(fp[1]) * 10 ELSE DigitsVal(fp)
    IN IF ok THEN F(Sign(t) * (DigitsVal(ip) * 100 + fv)) ELSE None

-----------------------------------------------------------------------------
(* Property resolver (utils.py) *)

TrueWords == {<<"t","r","u","e">>, <<"y","e","s">>, <<"1">>, <<"y">>, <<"o","n">>}
FalseWords == {<<"f","a","l","s","e">>, <<"n","o">>, <<"0">>, <<"n">>, <<"o","f","f">>}

\* `env_var_name and env_var_name.strip()` followed by os.getenv: env is the
\* variable's value, None when it is unset
EnvNamed(env_var_name) == ~Falsy(env_var_name) /\ Strip(env_var_name.s) # <<>>

get_str_property(value, env_var_name, env, default_value) ==
    IF ~IsNone(value) /\ Strip(PyStr(value)) # <<>>
    THEN S(PyStr(value))
    ELSE IF EnvNamed(env_var_name) /\ ~Falsy(env) /\ Strip(env.s) # <<>>
    THEN env
    ELSE default_value

\* a resolver that asks the environment before the explicit value
get_int_property_env_first(value, env_var_name, env, default_value) ==
    IF EnvNamed(env_var_name) /\ ~Falsy(env) /\ Strip(env.s) # <<>> /\ ~IsNone(ParseInt(env.s))
    THEN ParseInt(env.s)
    ELSE IF IsInt(value) THEN value
    ELSE IF ~IsNone(value) /\ Strip(PyStr(value)) # <<>> /\ ~IsNone(ParseInt(PyStr(value)))
    THEN ParseInt(PyStr(value))
    ELSE default_value

get_int_property(value, env_var_name, env, default_value) ==
    IF IsInt(value) THEN value
    ELSE IF ~IsNone(value) /\ Strip(PyStr(value)) # <<>> /\ ~IsNone(ParseInt(PyStr(value)))
    THEN ParseInt(PyStr(value))
    ELSE IF EnvNamed(env_var_name) /\ ~Falsy(env) /\ Strip(env.s) # <<>> /\ ~IsNone(ParseInt(env.s))
    THEN ParseInt(env.s)
    ELSE default_value

get_float_property(value, env_var_name, env, default_value) ==
    IF IsFloat(value) THEN value
    ELSE IF ~IsNone(value) /\ Strip(PyStr(value)) # <<>> /\ ~IsNone(ParseFloat(PyStr(value)))
    THEN ParseFloat(PyStr(value))
    ELSE IF EnvNamed(env_var_name) /\ ~Falsy(env) /\ Strip(env.s) # <<>> /\ ~IsNone(ParseFloat(env.s))
    THEN ParseFloat(env.s)
    ELSE default_value

\* a resolver that takes any explicit text that is not blank for True
get_bool_property_any_text(value, env_var_name, env, default_value) ==
    IF IsBool(value) THEN value
    ELSE IF IsStr(value) /\ Lower(Strip(value.s)) \in FalseWords THEN B(FALSE)
    ELSE IF IsStr(value) /\ Strip(value.s) # <<>> THEN B(TRUE)
    ELSE IF value.t \in {"int", "float"} THEN B(value.n # 0)
    ELSE IF EnvNamed(env_var_name) /\ ~IsNone(env) /\ Lower(Strip(env.s)) \in TrueWords THEN B(TRUE)
    ELSE IF EnvNamed(env_var_name) /\ ~IsNone(env) /\ Lower(Strip(env.s)) \in FalseWords THEN B(FALSE)
    ELSE default_value

get_bool_property(value, env_var_name, env, default_value) ==
    IF IsBool(value) THEN value
    ELSE IF IsStr(value) /\ Lower(Strip(value.s)) \in TrueWords THEN B(TRUE)
    ELSE IF IsStr(value) /\ Lower(Strip(value.s)) \in FalseWords THEN B(FALSE)
    ELSE IF value.t \in {"int", "float"} THEN B(value.n # 0)
    ELSE IF EnvNamed(env_var_name) /\ ~IsNone(env) /\ Lower(Strip(env.s)) \in TrueWords THEN B(TRUE)
    ELSE IF EnvNamed(env_var_name) /\ ~IsNone(env) /\ Lower(Strip(env.s)) \in FalseWords THEN B(FALSE)
    ELSE default_value

-----------------------------------------------------------------------------
(* Property resolver of the loader (properties/MCPServerProperties.py) *)

\* props.get(prop_name, None)
PropOf(v) == IF v.t = "absent" THEN None ELSE v

\* the loader's own get_float_property: a number is returned as float(value);
\* any other explicit value is overwritten by None before it is read, so the
\* text that is parsed is str(None)
cfg_get_float_property(value, env_var_name, env, default_value) ==
    IF IsInt(value) \/ IsFloat(value) THEN F(Num(value))
    ELSE IF ~IsNone(value) /\ ~IsNone(ParseFloat(PyStr(None)))
    THEN ParseFloat(PyStr(None))
    ELSE IF EnvNamed(env_var_name) /\ ~Falsy(env) /\ Strip(env.s) # <<>> /\ ~IsNone(ParseFloat(env.s))
    THEN ParseFloat(env.s)
    ELSE default_value

\* the loader's own get_int_property: an int is returned as it is; any
\* other explicit value is overwritten by None before it is read
cfg_get_int_property(value, env_var_name, env, default_value) ==
    IF IsInt(value) THEN value
    ELSE IF ~IsNone(value) /\ ~IsNone(ParseInt(PyStr(None)))
    THEN ParseInt(PyStr(None))
    ELSE IF EnvNamed(env_var_name) /\ ~Falsy(env) /\ Strip(env.s) # <<>> /\ ~IsNone(ParseInt(env.s))
    THEN ParseInt(env.s)
    ELSE default_value

-----------------------------------------------------------------------------
(* Configuration model *)

list_knowledge_bases_name == <<"l","i","s","t","_","k","n","o","w","l","e","d","g","e","_","b","a","s","e","s">>
get_knowledge_base_info_name == <<"g","e","t","_","k","n","o","w","l","e","d","g","e","_","b","a","s","e","_","i","n","f","o">>

\* class attributes of MCPServerProperties
DefaultProperties ==
    [ default_base_url |-> None,
      default_api_key |-> None,
      timeout |-> F(6000),
      timeout_param_enabled |-> FALSE,
      list_bases_enabled |-> FALSE,
      list_bases_name |-> list_knowledge_bases_name,
      list_bases_base_url |-> None,
      list_bases_api_key |-> None,
      get_base_enabled |-> FALSE,
      get_base_name |-> get_knowledge_base_info_name ]

\* one entry of the document's `datasets` list; a key the entry does not
\* carry holds Absent
Entry(enabled, id_param_enabled, dataset_id, search_tool_enabled, search_tool_name, search_tool_description) ==
    [ enabled |-> enabled,
      id_param_enabled |-> id_param_enabled,
      dataset_id |-> dataset_id,
      search_tool_enabled |-> search_tool_enabled,
      search_tool_name |-> search_tool_name,
      search_tool_description |-> search_tool_description,
      search_tool_result |-> Absent,
      default_weights |-> Absent,
      base_url |-> Absent,
      api_key |-> Absent,
      default_top_k |-> Absent ]

\* pydantic validation of one `str` field: a missing key takes the declared
\* default, a str is kept, anything else (None included) is a ValidationError
StrFieldOk(v) == v.t \in {"absent", "str"}
StrField(v, default) == IF v.t = "absent" THEN default ELSE v
BoolField(v, default) == IF v.t = "absent" THEN B(default) ELSE v
IntField(v, default) == IF v.t = "absent" THEN I(default) ELSE v

\* search_tool_name is the one field of Dataset declared without a default
DatasetValid(e) ==
    /\ e.search_tool_name.t = "str"
    /\ StrFieldOk(e.dataset_id)
    /\ StrFieldOk(e.search_tool_description)
    /\ StrFieldOk(e.search_tool_result)
    /\ StrFieldOk(e.base_url)
    /\ StrFieldOk(e.api_key)

\* Dataset(**dataset_properties)
Dataset(e) ==
    [ enabled |-> BoolField(e.enabled, TRUE),
      dataset_id |-> StrField(e.dataset_id, None),
      id_param_enabled |-> BoolField(e.id_param_enabled, FALSE),
      search_tool_enabled |-> BoolField(e.search_tool_enabled, TRUE),
      search_tool_name |-> e.search_tool_name,
      search_tool_description |-> StrField(e.search_tool_description, None),
      search_tool_result |-> StrField(e.search_tool_result, S(<<"j","s","o","n">>)),
      base_url |-> StrField(e.base_url, None),
      api_key |-> StrField(e.api_key, None),
      default_top_k |-> IntField(e.default_top_k, 3),
      default_weights |-> IF e.default_weights.t = "absent" THEN F(60) ELSE e.default_weights,
      default_score_threshold_enabled |-> B(FALSE),
      default_score_threshold |-> F(50) ]

-----------------------------------------------------------------------------
(* The datasets dict: insertion-ordered <<[key, ds]>> *)

HasKey(reg, key) == \E i \in 1..Len(reg) : reg[i].key = key

\* self.datasets[dataset_id] = dataset: a key already present keeps its place
Put(reg, key, ds) ==
    IF HasKey(reg, key)
    THEN [i \in 1..Len(reg) |-> IF reg[i].key = key THEN [key |-> key, ds |-> ds] ELSE reg[i]]
    ELSE Append(reg, [key |-> key, ds |-> ds])

\* f"__dataset_{len(self.datasets)}__"
SyntheticKey(reg) ==
    <<"_","_","d","a","t","a","s","e","t","_">> \o NatToStr(Len(reg)) \o <<"_","_">>

-----------------------------------------------------------------------------
(* Configuration loader *)

\* the duplicate test of _load_datasets: the name as the entry spells it is
\* looked up among the names already accepted
SeenToolName(name, seen_tool_names) == name \in seen_tool_names

\* the checks of one dataset whose search tool is enabled; the result is the
\* dataset as it would be registered
CheckSearchTool(ds, seen_tool_names) ==
    LET name == ds.search_tool_name
        desc == ds.search_tool_description
        ok == /\ ~(Falsy(name) \/ Strip(name.s) = <<>>)
              /\ ~SeenToolName(name.s, seen_tool_names)
              /\ ~(Falsy(desc) \/ Strip(desc.s) = <<>>)
        result == IF Falsy(ds.search_tool_result)
                     \/ ds.search_tool_result.s \notin {<<"j","s","o","n">>, <<"s","i","m","p","l","e">>}
                  THEN S(<<"j","s","o","n">>) ELSE ds.search_tool_result
    IN IF ok
       THEN [ds EXCEPT !.search_tool_result = result,
                       !.search_tool_name = S(Strip(name.s)),
                       !.search_tool_description = S(Strip(desc.s))]
       ELSE [ds EXCEPT !.search_tool_result = result,
                       !.search_tool_enabled = B(FALSE),
                       !.search_tool_name = S(<<>>),
                       !.search_tool_description = S(<<>>)]

\* one iteration of the loop of _load_datasets over entry e:
\* st = [reg, seen, raised]
LoadEntry(st, e) ==
    LET enabled == get_bool_property(PropOf(e.enabled), None, None, B(TRUE))
        id_param_enabled == get_bool_property(PropOf(e.id_param_enabled), None, None, B(FALSE))
        dataset_id == get_str_property(PropOf(e.dataset_id), None, None, None)
        key == IF Falsy(id_param_enabled) THEN dataset_id.s ELSE SyntheticKey(st.reg)
        ds == IF Dataset(e).search_tool_enabled.b
              THEN CheckSearchTool(Dataset(e), st.seen) ELSE Dataset(e)
    IN IF st.raised THEN st
       ELSE IF Falsy(enabled) THEN st
       ELSE IF Falsy(id_param_enabled) /\ (Falsy(dataset_id) \/ Strip(dataset_id.s) = <<>>) THEN st
       ELSE IF ~DatasetValid(e) THEN [st EXCEPT !.raised = TRUE]
       ELSE IF ~ds.search_tool_enabled.b THEN st
       ELSE [st EXCEPT !.reg = Put(st.reg, key, ds),
                       !.seen = st.seen \cup {ds.search_tool_name.s}]

RECURSIVE LoadEntries(_, _)
LoadEntries(st, entries) ==
    IF entries = <<>> THEN st
    ELSE LoadEntries(LoadEntry(st, Head(entries)), Tail(entries))

\* _load_datasets(properties): starts from the dict the class already holds
_load_datasets(reg, doc) ==
    LoadEntries([reg |-> reg, seen |-> {}, raised |-> FALSE], doc.datasets)

\* _load_basic_properties, _load_list_bases_properties and
\* _load_get_base_properties, on the fields kept here; no environment
\* variable is set
_load_properties(p, doc) ==
    LET url == get_str_property(PropOf(doc.default_base_url), None, None, None)
        apikey == get_str_property(PropOf(doc.default_api_key), None, None, None)
        timeout == cfg_get_float_property(PropOf(doc.timeout), None, None, None)
        tpe == get_bool_property(PropOf(doc.timeout_param_enabled), None, None, None)
        lbe == get_bool_property(PropOf(doc.list_bases_enabled), None, None, B(p.list_bases_enabled))
        lname == get_str_property(PropOf(doc.list_bases_name), None, None, S(p.list_bases_name))
        gbe == get_bool_property(PropOf(doc.get_base_enabled), None, None, B(p.get_base_enabled))
        gname == get_str_property(PropOf(doc.get_base_name), None, None, S(p.get_base_name))
        listOn == ~Falsy(lbe) /\ ~(Falsy(lname) \/ Strip(lname.s) = <<>>)
        getOn == ~Falsy(gbe) /\ ~(Falsy(gname) \/ Strip(gname.s) = <<>>)
    IN [p EXCEPT
          !.default_base_url = IF ~Falsy(url) THEN S(Strip(url.s)) ELSE @,
          !.default_api_key = IF ~Falsy(apikey) /\ Strip(apikey.s) # <<>> THEN S(Strip(apikey.s)) ELSE @,
          !.timeout = IF ~IsNone(timeout) /\ timeout.n >= 10 THEN timeout ELSE @,
          !.timeout_param_enabled = ~Falsy(tpe),
          !.list_bases_enabled = listOn,
          !.list_bases_name = IF listOn THEN Strip(lname.s) ELSE @,
          !.get_base_enabled = getOn,
          !.get_base_name = IF getOn THEN Strip(gname.s) ELSE @]

-----------------------------------------------------------------------------
(* Tool registry (server.py list_tools) *)

Param(name, type) == [name |-> name, type |-> type]

TimeoutParam(p) == IF p.timeout_param_enabled THEN <<Param("timeout", "integer")>> ELSE <<>>

\* a search tool that asks for knowledge_base_id in either mode
SearchTool_always_id(p, ds) ==
    [ name |-> ds.search_tool_name.s,
      params |-> <<Param("query", "string"), Param("knowledge_base_id", "string"),
                   Param("top_k", "integer"), Param("semantic_weights", "number")>>
                 \o TimeoutParam(p),
      required |-> <<"query", "knowledge_base_id">> ]

SearchTool(p, ds) ==
    [ name |-> ds.search_tool_name.s,
      params |-> <<Param("query", "string")>>
                 \o (IF ds.id_param_enabled.b THEN <<Param("knowledge_base_id", "string")>> ELSE <<>>)
                 \o <<Param("top_k", "integer"), Param("semantic_weights", "number")>>
                 \o TimeoutParam(p),
      required |-> <<"query">> \o (IF ds.id_param_enabled.b THEN <<"knowledge_base_id">> ELSE <<>>) ]

ListBasesTool(p) ==
    [ name |-> p.list_bases_name,
      params |-> <<Param("page", "integer"), Param("limit", "integer")>> \o TimeoutParam(p),
      required |-> <<>> ]

GetBaseTool(p) ==
    [ name |-> p.get_base_name,
      params |-> <<Param("knowledge_base_id", "string")>> \o TimeoutParam(p),
      required |-> <<"knowledge_base_id">> ]

RECURSIVE SearchTools(_, _)
SearchTools(p, reg) ==
    IF reg = <<>> THEN <<>>
    ELSE (IF Head(reg).ds.search_tool_enabled.b THEN <<SearchTool(p, Head(reg).ds)>> ELSE <<>>)
         \o SearchTools(p, Tail(reg))

list_tools(p, reg) ==
    SearchTools(p, reg)
    \o (IF p.list_bases_enabled THEN <<ListBasesTool(p)>> ELSE <<>>)
    \o (IF p.get_base_enabled THEN <<GetBaseTool(p)>> ELSE <<>>)

-----------------------------------------------------------------------------
(* Dispatch (server.py call_tool) *)

\* the loop over properties.datasets: the first dataset whose enabled search
\* tool carries the name, 0 when there is none
FindDataset(reg, name) ==
    IF \E i \in 1..Len(reg) : /\ reg[i].ds.search_tool_enabled.b
                              /\ ~Falsy(reg[i].ds.search_tool_name)
                              /\ reg[i].ds.search_tool_name.s = name
    THEN CHOOSE i \in 1..Len(reg) :
            /\ reg[i].ds.search_tool_enabled.b
            /\ ~Falsy(reg[i].ds.search_tool_name)
            /\ reg[i].ds.search_tool_name.s = name
            /\ \A j \in 1..(i - 1) : ~(/\ reg[j].ds.search_tool_enabled.b
                                       /\ ~Falsy(reg[j].ds.search_tool_name)
                                       /\ reg[j].ds.search_tool_name.s = name)
    ELSE 0

\* a dispatch that tries list-bases before the datasets
Route_list_bases_first(p, reg, name) ==
    IF p.list_bases_enabled /\ p.list_bases_name = name THEN "list_knowledge_bases"
    ELSE IF FindDataset(reg, name) # 0 THEN "search_knowledge"
    ELSE IF p.get_base_enabled /\ p.get_base_name = name THEN "get_knowledge_base"
    ELSE "none"

\* the handler call_tool picks for the (stripped) name: "none" is a name
\* that matches nothing
Route(p, reg, name) ==
    IF FindDataset(reg, name) # 0 THEN "search_knowledge"
    ELSE IF p.list_bases_enabled /\ p.list_bases_name = name THEN "list_knowledge_bases"
    ELSE IF p.get_base_enabled /\ p.get_base_name = name THEN "get_knowledge_base"
    ELSE "none"

RECURSIVE SearchToolNames(_)
SearchToolNames(reg) ==
    IF reg = <<>> THEN <<>>
    ELSE (IF Head(reg).ds.search_tool_enabled.b /\ ~Falsy(Head(reg).ds.search_tool_name)
          THEN <<Head(reg).ds.search_tool_name.s>> ELSE <<>>)
         \o SearchToolNames(Tail(reg))

\* valid_tool_names of the ToolNotFoundError
ValidToolNames(p, reg) ==
    SearchToolNames(reg)
    \o (IF p.list_bases_enabled THEN <<p.list_bases_name>> ELSE <<>>)
    \o (IF p.get_base_enabled THEN <<p.get_base_name>> ELSE <<>>)

-----------------------------------------------------------------------------
(* Downstream client (ragflow/RAGFlowKnowledgeAPI.py) *)

NoRequest ==
    [ op |-> "none", base_url |-> None, api_key |-> None, dataset_id |-> None,
      question |-> None, page |-> None, page_size |-> None, top_k |-> None,
      similarity_threshold |-> None, vector_similarity_weight |-> None, timeout |-> None ]

\* what a handler hands back before it awaits: err is "none" when the request
\* req goes out, otherwise the exception raised and its code
Raise(err, code) == [err |-> err, code |-> code, req |-> NoRequest]
Send(req) == [err |-> "none", code |-> 0, req |-> req]

\* RAGFlowKnowledgeAPI() as get_api() builds it, with neither
\* DEFAULT_RAGFLOW_KNOWLEDGE_BASE_URL nor DEFAULT_RAGFLOW_KNOWLEDGE_API_KEY set
api_default_base_url == S(<<>>)
api_default_api_key == S(<<>>)

Blank(v) == Falsy(v) \/ Strip(v.s) = <<>>

RECURSIVE bit_length(_)
bit_length(n) == IF n = 0 THEN 0 ELSE 1 + bit_length(n \div 2)

\* a probe count that shifts by the bit length of top_k itself
vector_chunk_size_of_top_k(top_k) ==
    LET p2 == 2 ^ bit_length(top_k) IN IF p2 > 2 THEN p2 ELSE 2

\* max(2, 1 << ((top_k - 1).bit_length()))
vector_chunk_size(top_k) ==
    LET p2 == 2 ^ bit_length(top_k - 1) IN IF p2 > 2 THEN p2 ELSE 2

\* the sentinel 1e-6 sent when thresholding is off (below one hundredth)
NearZero == Val("float", FALSE, 0, <<"1","e","-","6">>)

\* retrieve_chunks up to the point where the request is posted
retrieve_chunks(dataset_id, query, base_url, api_key, top_k, score_threshold_enabled, score_threshold, timeout) ==
    LET url == IF Blank(base_url) THEN api_default_base_url ELSE base_url
        key == IF Blank(api_key) THEN api_default_api_key ELSE api_key
    IN IF Blank(query) THEN Raise("RAGFlowError", 400)
       ELSE IF Blank(dataset_id) THEN Raise("RAGFlowError", 400)
       ELSE IF Num(top_k) < 100 \/ Num(top_k) > 50000 THEN Raise("RAGFlowError", 400)
       ELSE IF score_threshold_enabled.b /\ IsNone(score_threshold) THEN Raise("TypeError", 0)
       ELSE IF score_threshold_enabled.b /\ (Num(score_threshold) < 0 \/ Num(score_threshold) > 100)
       THEN Raise("RAGFlowError", 400)
       ELSE IF Blank(url) THEN Raise("RAGFlowError", 400)
       ELSE IF Blank(key) THEN Raise("RAGFlowError", 401)
       ELSE Send([ NoRequest EXCEPT
                     !.op = "retrieval",
                     !.base_url = url,
                     !.api_key = key,
                     !.dataset_id = dataset_id,
                     !.question = query,
                     !.page = I(1),
                     !.page_size = top_k,
                     !.top_k = I(vector_chunk_size(IntOf(top_k))),
                     !.similarity_threshold = IF score_threshold_enabled.b THEN score_threshold ELSE NearZero,
                     !.vector_similarity_weight = F(60),
                     !.timeout = timeout ])

\* list_knowledge_bases up to the point where the request is sent
api_list_knowledge_bases(base_url, api_key, page, limit, timeout) ==
    LET url == IF Blank(base_url) THEN api_default_base_url ELSE base_url
        key == IF Blank(api_key) THEN api_default_api_key ELSE api_key
    IN IF Blank(url) THEN Raise("RAGFlowError", 400)
       ELSE IF Blank(key) THEN Raise("RAGFlowError", 401)
       ELSE Send([ NoRequest EXCEPT
                     !.op = "list",
                     !.base_url = url,
                     !.api_key = key,
                     !.page = IF ~IsNone(page) /\ Num(page) > 0 THEN page ELSE None,
                     !.page_size = IF ~IsNone(limit) /\ Num(limit) > 0 THEN limit ELSE None,
                     !.timeout = timeout ])

\* get_knowledge_base up to the point where the request is sent
api_get_knowledge_base(dataset_id, base_url, api_key, timeout) ==
    LET url == IF Blank(base_url) THEN api_default_base_url ELSE base_url
        key == IF Blank(api_key) THEN api_default_api_key ELSE api_key
    IN IF Blank(dataset_id) THEN Raise("RAGFlowError", 400)
       ELSE IF Blank(url) THEN Raise("RAGFlowError", 400)
       ELSE IF Blank(key) THEN Raise("RAGFlowError", 401)
       ELSE Send([ NoRequest EXCEPT
                     !.op = "get",
                     !.base_url = url,
                     !.api_key = key,
                     !.dataset_id = dataset_id,
                     !.timeout = timeout ])

\* _ragflow_code_dict.get(code, 500): a dict looks a key up by hash and
\* equality, so a float or a bool finds the int key it is equal to (0.0 finds
\* 0, 100.0 finds 100); None and text find nothing
_ragflow_code_dict(code) ==
    IF code.t \notin {"int", "float", "bool"} THEN 500
    ELSE CASE Num(code) = 0 -> 200
           [] Num(code) \in {10000, 10200} -> 404
           [] Num(code) = 10900 -> 401
           [] OTHER -> 500

\* a downstream answer: kind "http" carries the outer status, the inner code
\* and the payload (chunks for a retrieval, rows for a dataset listing; data
\* FALSE is a body without data); kind "timeout" is asyncio.TimeoutError
\* and kind "error" any other failure of the exchange
\* a dict of a downstream body: None, {} or a dict whose key of interest
\* holds `use` (Absent when the key is missing)
Dict(t, use) == [t |-> t, use |-> use]
NoDict == Dict("none", Absent)

\* ParserConfig of a KnowledgeBase; present FALSE is parser_config None
ParserConfig(present, layout_recognize, graphrag, raptor) ==
    [present |-> present, layout_recognize |-> layout_recognize, graphrag |-> graphrag, raptor |-> raptor]
NoParserConfig == ParserConfig(FALSE, None, NoDict, NoDict)

\* parser_config is that of the first entry of a dataset listing
Response(kind, status, code, data, chunks, rows) ==
    [kind |-> kind, status |-> status, code |-> code, data |-> data, chunks |-> chunks, rows |-> rows,
     parser_config |-> NoParserConfig]

\* an exchange whose timeout is caught with every other exception
ExchangeError_timeout_as_failure(resp) ==
    IF resp.kind \in {"timeout", "error"} THEN 500
    ELSE IF resp.status # 200 THEN resp.status
    ELSE IF IsNone(resp.code) \/ ~IsInt(resp.code) \/ Num(resp.code) # 0
    THEN _ragflow_code_dict(resp.code)
    ELSE 0

\* the code of the RAGFlowError the exchange ends in, 0 when it returns
ExchangeError(resp) ==
    IF resp.kind = "timeout" THEN 408
    ELSE IF resp.kind = "error" THEN 500
    ELSE IF resp.status # 200 THEN resp.status
    ELSE IF IsNone(resp.code) \/ ~IsInt(resp.code) \/ Num(resp.code) # 0
    THEN _ragflow_code_dict(resp.code)
    ELSE 0

-----------------------------------------------------------------------------
(* Handlers (service/*.py) *)

\* the arguments of a tool call; a key the caller did not send holds Absent
Args(query, knowledge_base_id, top_k, score_threshold_enabled, score_threshold, timeout, page, limit) ==
    [ query |-> query, knowledge_base_id |-> knowledge_base_id, top_k |-> top_k,
      score_threshold_enabled |-> score_threshold_enabled, score_threshold |-> score_threshold,
      timeout |-> timeout, page |-> page, limit |-> limit, semantic_weights |-> Absent ]

\* the test search_knowledge applies to top_k
TopKInvalid(top_k) == Falsy(top_k) \/ ~IsInt(top_k) \/ Num(top_k) < 100

\* the timeout search_knowledge and list_knowledge_bases resolve, None
\* standing for the InvalidToolArgumentError
IntTimeoutInvalid(p, args) ==
    LET t == Get(args, "timeout", p.timeout)
    IN p.timeout_param_enabled /\ ~IsNone(t) /\ (~IsInt(t) \/ Num(t) < 100)

\* a timeout that is taken from the caller whether or not the parameter is on
Timeout_from_caller(p, args) == Get(args, "timeout", p.timeout)

Timeout(p, args) == IF p.timeout_param_enabled THEN Get(args, "timeout", p.timeout) ELSE p.timeout

\* a search that prefers the caller's id in either mode
SearchDatasetId_caller_first(ds, args) == Get(args, "knowledge_base_id", ds.dataset_id)

\* the dataset id search_knowledge works with
SearchDatasetId(ds, args) ==
    IF ds.id_param_enabled.b THEN Get(args, "knowledge_base_id", None) ELSE ds.dataset_id

\* search_knowledge up to the await of api.retrieve_chunks
search_knowledge(p, ds, args) ==
    LET query == Get(args, "query", S(<<>>))
        dataset_id == SearchDatasetId(ds, args)
        top_k == Get(args, "top_k", ds.default_top_k)
        score_threshold_enabled == Get(args, "score_threshold_enabled", ds.default_score_threshold_enabled)
        score_threshold == Get(args, "score_threshold", ds.default_score_threshold)
        own == ~Falsy(ds.base_url) /\ ~Falsy(ds.api_key)
        base_url == IF own THEN ds.base_url ELSE p.default_base_url
        api_key == IF own THEN ds.api_key ELSE p.default_api_key
        r == retrieve_chunks(dataset_id, query, base_url, api_key, top_k, score_threshold_enabled,
                             score_threshold, Timeout(p, args))
    IN IF Falsy(query) \/ ~IsStr(query) \/ Strip(query.s) = <<>>
       THEN Raise("InvalidToolArgumentError", 400)
       ELSE IF ds.id_param_enabled.b
               /\ (Falsy(dataset_id) \/ ~IsStr(dataset_id) \/ Strip(dataset_id.s) = <<>>)
       THEN Raise("InvalidToolArgumentError", 400)
       ELSE IF TopKInvalid(top_k) THEN Raise("InvalidToolArgumentError", 400)
       ELSE IF IsNone(score_threshold_enabled) \/ ~IsBool(score_threshold_enabled)
       THEN Raise("InvalidToolArgumentError", 400)
       ELSE IF ~IsNone(score_threshold) /\ (~IsFloat(score_threshold) \/ Num(score_threshold) < 0)
       THEN Raise("InvalidToolArgumentError", 400)
       ELSE IF IntTimeoutInvalid(p, args) THEN Raise("InvalidToolArgumentError", 400)
       ELSE IF r.err = "RAGFlowError" THEN Raise("ToolAPIError", r.code)
       ELSE r

\* list_knowledge_bases up to the await of api.list_knowledge_bases
list_knowledge_bases(p, args) ==
    LET own == ~Falsy(p.list_bases_base_url) /\ ~Falsy(p.list_bases_api_key)
        base_url == IF own THEN p.list_bases_base_url ELSE p.default_base_url
        api_key == IF own THEN p.list_bases_api_key ELSE p.default_api_key
        page == Get(args, "page", I(1))
        limit == Get(args, "limit", I(20))
        r == api_list_knowledge_bases(base_url, api_key, page, limit, Timeout(p, args))
    IN IF ~IsNone(page) /\ (~IsInt(page) \/ Num(page) < 100)
       THEN Raise("InvalidToolArgumentError", 400)
       ELSE IF ~IsNone(limit) /\ (~IsInt(limit) \/ Num(limit) < 100 \/ Num(limit) > 10000)
       THEN Raise("InvalidToolArgumentError", 400)
       ELSE IF IntTimeoutInvalid(p, args) THEN Raise("InvalidToolArgumentError", 400)
       ELSE IF r.err = "RAGFlowError" THEN Raise("ToolAPIError", r.code)
       ELSE r

\* the loop of get_knowledge_base over properties.datasets
OwnerOf(reg, knowledge_base_id) ==
    IF \E i \in 1..Len(reg) : reg[i].ds.dataset_id = knowledge_base_id
    THEN CHOOSE i \in 1..Len(reg) : /\ reg[i].ds.dataset_id = knowledge_base_id
                                    /\ \A j \in 1..(i - 1) : reg[j].ds.dataset_id # knowledge_base_id
    ELSE 0

\* get_knowledge_base up to the await of api.get_knowledge_base
get_knowledge_base(p, reg, args) ==
    LET knowledge_base_id == Get(args, "knowledge_base_id", None)
        o == OwnerOf(reg, knowledge_base_id)
        own == o # 0 /\ ~Falsy(reg[o].ds.base_url) /\ ~Falsy(reg[o].ds.api_key)
        base_url == IF own THEN reg[o].ds.base_url ELSE p.default_base_url
        api_key == IF own THEN reg[o].ds.api_key ELSE p.default_api_key
        t == Get(args, "timeout", p.timeout)
        r == api_get_knowledge_base(knowledge_base_id, base_url, api_key, Timeout(p, args))
    IN IF Falsy(knowledge_base_id) \/ ~IsStr(knowledge_base_id) \/ Strip(knowledge_base_id.s) = <<>>
       THEN Raise("InvalidToolArgumentError", 400)
       ELSE IF p.timeout_param_enabled /\ ~IsNone(t) /\ (~(IsInt(t) \/ IsFloat(t)) \/ Num(t) < 10)
       THEN Raise("InvalidToolArgumentError", 400)
       ELSE IF r.err = "RAGFlowError" THEN Raise("ToolAPIError", r.code)
       ELSE r

-----------------------------------------------------------------------------
(* Result shaping of search_knowledge *)

Chunk(similarity, content) == [similarity |-> similarity, content |-> content]
Knowledge(score, content) == [score |-> score, content |-> content]

\* a filter that skips a chunk only when score and content are both missing
Skipped_when_both(data) == IsNone(data.similarity) /\ IsNone(data.content)
\* the chunks search_knowledge skips
Skipped(data) == IsNone(data.similarity) \/ IsNone(data.content)

RECURSIVE Survivors(_)
Survivors(chunks) ==
    IF chunks = <<>> THEN <<>>
    ELSE (IF Skipped(Head(chunks)) THEN <<>>
          ELSE <<Knowledge(Head(chunks).similarity, Head(chunks).content)>>)
         \o Survivors(Tail(chunks))

\* the place a stable descending sort gives k among the already sorted list:
\* behind every entry whose score is not smaller
RECURSIVE InsertDesc(_, _)
InsertDesc(sorted, k) ==
    IF sorted = <<>> THEN <<k>>
    ELSE IF Num(Head(sorted).score) >= Num(k.score) THEN <<Head(sorted)>> \o InsertDesc(Tail(sorted), k)
    ELSE <<k>> \o sorted

RECURSIVE SortDesc(_)
\* knowledge_list.sort(key=lambda x: x.score, reverse=True)
SortDesc(list) ==
    IF list = <<>> THEN <<>>
    ELSE InsertDesc(SortDesc(SubSeq(list, 1, Len(list) - 1)), list[Len(list)])

\* a slice that keeps one entry too many: knowledge_list[:top_k + 1]
Trim_one_more(list, top_k) == IF Len(list) > top_k THEN SubSeq(list, 1, top_k + 1) ELSE list
\* knowledge_list[:top_k] when the list is longer than top_k
Trim(list, top_k) == IF Len(list) > top_k THEN SubSeq(list, 1, top_k) ELSE list

-----------------------------------------------------------------------------
(* Outcome of an invocation *)

\* the classes of schema/exceptions.py that derive from ToolError
ToolErrors == {"ToolError", "InvalidToolArgumentError", "ToolNotFoundError", "ToolAPIError",
               "DataError", "ToolExecutionError"}

NoOutcome ==
    [ raised |-> "none", error |-> "none", code |-> 0, knowledge_list |-> <<>>,
      knowledge_base_id |-> None, rows |-> 0, names |-> <<>>, indexing_technique |-> None ]

Failure_as_raised(raised, code) ==
    [ NoOutcome EXCEPT !.raised = raised, !.error = raised, !.code = code ]

\* raised is the exception the handler raised, error the one call_tool lets
\* out: `except ToolError: raise e`, anything else becomes
\* ToolExecutionError(code=500)
Failure(raised, code) ==
    [ NoOutcome EXCEPT !.raised = raised,
                       !.error = IF raised \in ToolErrors THEN raised ELSE "ToolExecutionError",
                       !.code = IF raised \in ToolErrors THEN code ELSE 500 ]

Success(knowledge_list, knowledge_base_id, rows) ==
    [ NoOutcome EXCEPT !.error = "ok", !.knowledge_list = knowledge_list,
                       !.knowledge_base_id = knowledge_base_id, !.rows = rows ]

\* search_knowledge after the await
search_knowledge_result(ds, args, resp) ==
    LET top_k == Get(args, "top_k", ds.default_top_k)
        knowledge_list == Survivors(resp.chunks)
    IN IF ExchangeError(resp) # 0 THEN Failure("ToolAPIError", ExchangeError(resp))
       ELSE IF ~resp.data \/ Len(resp.chunks) < 1 THEN Failure("DataError", 404)
       ELSE IF knowledge_list = <<>> THEN Failure("DataError", 404)
       ELSE Success(Trim(SortDesc(knowledge_list), IntOf(top_k)), SearchDatasetId(ds, args), 0)

\* sep.join(labels)
RECURSIVE Join(_, _)
Join(labels, sep) ==
    IF labels = <<>> THEN <<>>
    ELSE IF Len(labels) = 1 THEN Head(labels)
    ELSE Head(labels) \o sep \o Join(Tail(labels), sep)

\* `value == True`: a number equal to 1 compares equal to True
EqualsTrue(v) == v.t \in {"bool", "int", "float"} /\ Num(v) = 100

Flagged_key_present(d) == d.t = "dict" /\ d.use.t # "absent"

\* `d and d.get(key, False) == True`
Flagged(d) == d.t = "dict" /\ EqualsTrue(Get(d, "use", B(FALSE)))

\* the indexing_technique expression of both handlers: the labels that are
\* truthy, joined by " + ", `or None`
indexing_technique(pc) ==
    LET layout == IF pc.present THEN pc.layout_recognize ELSE None
        labels == (IF Falsy(layout) THEN <<>> ELSE <<layout.s>>)
                  \o (IF pc.present /\ Flagged(pc.graphrag)
                      THEN << <<"G","r","a","p","h","R","A","G">> >> ELSE <<>>)
                  \o (IF pc.present /\ Flagged(pc.raptor)
                      THEN << <<"R","A","P","T","O","R">> >> ELSE <<>>)
        joined == Join(labels, <<" ", "+", " ">>)
    IN IF joined = <<>> THEN None ELSE S(joined)

\* list_knowledge_bases after the await
list_knowledge_bases_result(resp) ==
    IF ExchangeError(resp) # 0 THEN Failure("ToolAPIError", ExchangeError(resp))
    ELSE IF ~resp.data \/ resp.rows = 0 THEN Failure("DataError", 404)
    ELSE [Success(<<>>, None, resp.rows) EXCEPT !.indexing_technique = indexing_technique(resp.parser_config)]

\* get_knowledge_base after the await: zero rows is the client's RAGFlowError 404
get_knowledge_base_result(args, resp) ==
    IF ExchangeError(resp) # 0 THEN Failure("ToolAPIError", ExchangeError(resp))
    ELSE IF ~resp.data \/ resp.rows < 1 THEN Failure("ToolAPIError", 404)
    ELSE [Success(<<>>, args.knowledge_base_id, 1) EXCEPT
             !.indexing_technique = indexing_technique(resp.parser_config)]

-----------------------------------------------------------------------------
(* State *)

NoArgs == Args(Absent, Absent, Absent, Absent, Absent, Absent, Absent, Absent)
NoResponse == Response("none", 0, None, FALSE, <<>>, 0)

Idle == [ pc |-> "idle", name |-> <<>>, args |-> NoArgs, tool |-> "none", ds |-> 0,
          request |-> NoRequest, response |-> NoResponse, outcome |-> NoOutcome ]

NoDocument == [ kind |-> "none", default_base_url |-> Absent, default_api_key |-> Absent,
                timeout |-> Absent, timeout_param_enabled |-> Absent,
                list_bases_enabled |-> Absent, list_bases_name |-> Absent,
                get_base_enabled |-> Absent, get_base_name |-> Absent, datasets |-> <<>> ]

NoResolution == [ kind |-> "none", value |-> None, env_var_name |-> None, env |-> None,
                  default_value |-> None, result |-> None ]

NoTools == [listed |-> FALSE, tools |-> <<>>]

\* serve() before properties.load: the class attributes
Init ==
    /\ phase = "constructed"
    /\ document = NoDocument
    /\ properties = DefaultProperties
    /\ datasets = <<>>
    /\ tools = NoTools
    /\ call = Idle
    /\ requests = 0
    /\ resolved = NoResolution

-----------------------------------------------------------------------------
(* Actions *)

\* MCPServerProperties.load as serve() calls it.  A missing file and a
\* document that does not parse raise; an empty document returns early; any
\* exception of the loaders, and an empty registry after them, raise
Load(doc) ==
    /\ phase = "constructed"
    /\ document' = doc
    /\ IF doc.kind \in {"missing", "unparsable"}
       THEN phase' = "failed" /\ UNCHANGED <<properties, datasets>>
       ELSE IF doc.kind = "empty"
       THEN phase' = "serving" /\ UNCHANGED <<properties, datasets>>
       ELSE LET r == _load_datasets(datasets, doc)
            IN /\ properties' = _load_properties(properties, doc)
               /\ datasets' = r.reg
               /\ phase' = IF r.raised \/ r.reg = <<>> THEN "failed" ELSE "serving"
    /\ UNCHANGED <<tools, call, requests, resolved>>

\* the list_tools handler
ListTools ==
    /\ phase = "serving"
    /\ tools' = [listed |-> TRUE, tools |-> list_tools(properties, datasets)]
    /\ UNCHANGED <<phase, document, properties, datasets, call, requests, resolved>>

\* what the routed handler does before it awaits the downstream client
Handler(tool, p, reg, i, args) ==
    CASE tool = "search_knowledge" -> search_knowledge(p, reg[i].ds, args)
      [] tool = "list_knowledge_bases" -> list_knowledge_bases(p, args)
      [] OTHER -> get_knowledge_base(p, reg, args)

\* the call_tool handler up to the first await of the downstream client
CallTool(name, args) ==
    /\ phase = "serving"
    /\ call.pc = "idle"
    /\ LET stripped == Strip(name)
           tool == Route(properties, datasets, stripped)
           i == FindDataset(datasets, stripped)
           h == Handler(tool, properties, datasets, i, args)
           begun == [Idle EXCEPT !.name = name, !.args = args]
       IN IF stripped = <<>>
          THEN /\ call' = [begun EXCEPT !.pc = "done", !.outcome = Failure("ToolExecutionError", 400)]
               /\ requests' = 0
          ELSE IF tool = "none"
          THEN /\ call' = [begun EXCEPT !.pc = "done",
                              !.outcome = [Failure("ToolNotFoundError", 0) EXCEPT
                                              !.names = ValidToolNames(properties, datasets)]]
               /\ requests' = 0
          ELSE IF h.err # "none"
          THEN /\ call' = [begun EXCEPT !.pc = "done", !.tool = tool, !.ds = i,
                              !.outcome = Failure(h.err, h.code)]
               /\ requests' = 0
          ELSE /\ call' = [begun EXCEPT !.pc = "await", !.tool = tool, !.ds = i, !.request = h.req]
               /\ requests' = 1
    /\ UNCHANGED <<phase, document, properties, datasets, tools, resolved>>

\* a client that posts the request again when the exchange failed
Respond_with_retry(resp) ==
    /\ call.pc = "await"
    /\ IF ExchangeError(resp) # 0 /\ requests < 2
       THEN call' = call /\ requests' = requests + 1
       ELSE /\ requests' = requests
            /\ call' = [call EXCEPT
                  !.pc = "done",
                  !.response = resp,
                  !.outcome = CASE call.tool = "search_knowledge" ->
                                     search_knowledge_result(datasets[call.ds].ds, call.args, resp)
                                [] call.tool = "list_knowledge_bases" -> list_knowledge_bases_result(resp)
                                [] OTHER -> get_knowledge_base_result(call.args, resp)]
    /\ UNCHANGED <<phase, document, properties, datasets, tools, resolved>>

\* a handler that writes the timeout it worked with back to the settings
Respond_writes_back(resp) ==
    /\ call.pc = "await"
    /\ properties' = [properties EXCEPT !.timeout = Timeout(properties, call.args)]
    /\ call' = [call EXCEPT
          !.pc = "done",
          !.response = resp,
          !.outcome = CASE call.tool = "search_knowledge" ->
                             search_knowledge_result(datasets[call.ds].ds, call.args, resp)
                        [] call.tool = "list_knowledge_bases" -> list_knowledge_bases_result(resp)
                        [] OTHER -> get_knowledge_base_result(call.args, resp)]
    /\ UNCHANGED <<phase, document, datasets, tools, requests, resolved>>

\* the downstream exchange ends and the handler runs to its end
Respond(resp) ==
    /\ call.pc = "await"
    /\ call' = [call EXCEPT
          !.pc = "done",
          !.response = resp,
          !.outcome = CASE call.tool = "search_knowledge" ->
                             search_knowledge_result(datasets[call.ds].ds, call.args, resp)
                        [] call.tool = "list_knowledge_bases" -> list_knowledge_bases_result(resp)
                        [] OTHER -> get_knowledge_base_result(call.args, resp)]
    /\ UNCHANGED <<phase, document, properties, datasets, tools, requests, resolved>>

\* call_tool hands its result or its error to the transport
Return ==
    /\ call.pc = "done"
    /\ call' = Idle
    /\ requests' = 0
    /\ UNCHANGED <<phase, document, properties, datasets, tools, resolved>>

\* one call of a resolver of utils.py
Resolve(kind, value, env_var_name, env, default_value) ==
    /\ resolved = NoResolution
    /\ resolved' = [ kind |-> kind, value |-> value, env_var_name |-> env_var_name, env |-> env,
                     default_value |-> default_value,
                     result |-> CASE kind = "str" -> get_str_property(value, env_var_name, env, default_value)
                                  [] kind = "int" -> get_int_property(value, env_var_name, env, default_value)
                                  [] kind = "float" -> get_float_property(value, env_var_name, env, default_value)
                                  [] OTHER -> get_bool_property(value, env_var_name, env, default_value) ]
    /\ UNCHANGED <<phase, document, properties, datasets, tools, call, requests>>

-----------------------------------------------------------------------------
(* Inputs *)

\* documents: every entry of the pool is either a complete dataset (static
\* id A or B or dynamic id; tool name a, " a" or b) or a complete dataset
\* with one defect
Ids == {S(<<"A">>), S(<<"B">>)}
ToolNames == {S(<<"a">>), S(<<" ", "a">>), S(<<"b">>)}
Description == S(<<"d">>)

EntryPool ==
    { Entry(Absent, Absent, id, Absent, n, Description) : id \in Ids, n \in ToolNames }
    \cup { Entry(Absent, B(TRUE), Absent, Absent, n, Description) : n \in ToolNames }
    \cup { Entry(Absent, Absent, id, Absent, S(<<"a">>), Description) : id \in {Absent, S(<<" ">>)} }
    \cup { Entry(Absent, Absent, S(<<"B">>), Absent, n, Description) : n \in {Absent, S(<<" ">>)} }
    \cup { Entry(Absent, Absent, S(<<"B">>), Absent, S(<<"b">>), d) : d \in {Absent, S(<<" ">>)} }
    \cup { Entry(B(FALSE), Absent, S(<<"B">>), Absent, S(<<"b">>), Description),
           Entry(Absent, Absent, S(<<"B">>), B(FALSE), S(<<"b">>), Description) }

EntryLists == UNION { [1..n -> EntryPool] : n \in 0..MaxEntries }

Document(kind, tpe, lbe, lname, gbe, gname, entries) ==
    [ kind |-> kind, default_base_url |-> S(<<"u">>), default_api_key |-> S(<<"k">>),
      timeout |-> Absent, timeout_param_enabled |-> tpe,
      list_bases_enabled |-> lbe, list_bases_name |-> lname,
      get_base_enabled |-> gbe, get_base_name |-> gname, datasets |-> entries ]

\* documents of the loader specification: a missing file, a file that does
\* not parse, an empty file, and any list of pool entries with the optional
\* features all off or all on
Documents ==
    { [NoDocument EXCEPT !.kind = k] : k \in {"missing", "unparsable", "empty"} }
    \cup { Document("map", on, on, Absent, on, Absent, es) :
             on \in {Absent, B(TRUE)}, es \in EntryLists }

\* documents of the dispatch specification: complete datasets only (a
\* static one named a, a static one named " a" and a dynamic one named b);
\* the optional tools are off, on under their default name, or on under a
\* name a dataset also uses
ServeEntryPool ==
    { Entry(Absent, Absent, S(<<"A">>), Absent, S(<<"a">>), Description),
      Entry(Absent, Absent, S(<<"B">>), Absent, S(<<" ", "a">>), Description),
      Entry(Absent, B(TRUE), Absent, Absent, S(<<"b">>), Description) }

ServeEntryLists == UNION { [1..n -> ServeEntryPool] : n \in 0..MaxEntries }

ServeDocuments ==
    { [NoDocument EXCEPT !.kind = "empty"] }
    \cup { Document("map", tpe, lbe, lname, gbe, gname, es) :
             tpe \in {Absent, B(TRUE)},
             lbe \in {Absent, B(TRUE)}, lname \in {Absent, S(<<"b">>)},
             gbe \in {Absent, B(TRUE)}, gname \in {Absent, S(<<"b">>)},
             es \in ServeEntryLists }

\* tool names a caller may send
CallNames == { <<>>, <<" ">>, <<"a">>, <<"a", " ">>, <<"b">>, <<"z">>,
               list_knowledge_bases_name, get_knowledge_base_info_name }

\* arguments of the dispatch specification: none, or a query, an id and a timeout
CallArgs ==
    { NoArgs, Args(S(<<"q">>), S(<<"K">>), Absent, Absent, Absent, I(5), Absent, Absent) }

\* downstream answers of the dispatch specification
CallResponses ==
    { Response("timeout", 0, None, FALSE, <<>>, 0),
      Response("http", 200, I(0), TRUE, <<>>, 0),
      Response("http", 200, I(0), TRUE, <<Chunk(F(90), S(<<"1">>))>>, 1) }

-----------------------------------------------------------------------------
(* Specifications *)

\* the server: one load, then listings and invocations
Next ==
    \/ \E doc \in ServeDocuments : Load(doc)
    \/ ListTools
    \/ \E name \in CallNames, args \in CallArgs : CallTool(name, args)
    \/ \E resp \in CallResponses : Respond(resp)
    \/ Return

Spec == Init /\ [][Next]_vars

\* the loader on every document
NextLoad == \E doc \in Documents : Load(doc)

SpecLoad == Init /\ [][NextLoad]_vars

\* the search handler on one loaded configuration: a static dataset behind
\* tool a and a dynamic one behind tool b, with and without the timeout
\* parameter
SearchDocuments ==
    { Document("map", tpe, Absent, Absent, Absent, Absent,
               << Entry(Absent, Absent, S(<<"A">>), Absent, S(<<"a">>), Description),
                  Entry(Absent, B(TRUE), Absent, Absent, S(<<"b">>), Description) >>) :
        tpe \in {Absent, B(TRUE)} }

InitSearch ==
    /\ phase = "serving"
    /\ document \in SearchDocuments
    /\ properties = _load_properties(DefaultProperties, document)
    /\ datasets = _load_datasets(<<>>, document).reg
    /\ tools = NoTools
    /\ call = Idle
    /\ requests = 0
    /\ resolved = NoResolution

\* arguments of a search call: the base call carries a query and an id and
\* nothing else; a call differs from it in at most MaxDeviations arguments
MaxDeviations == 2

BaseArgs == Args(S(<<"q">>), S(<<"K">>), Absent, Absent, Absent, Absent, Absent, Absent)

Deviations(args) == Cardinality({k \in DOMAIN BaseArgs : args[k] # BaseArgs[k]})

SearchArgs ==
    { args \in
        { Args(q, id, top_k, ste, st, t, Absent, Absent) :
            q \in {S(<<"q">>), Absent, None, S(<<>>), S(<<" ">>), I(7)},
            id \in {S(<<"K">>), Absent, None, S(<<" ">>), I(7)},
            top_k \in {Absent, None, I(0), I(1), I(2), I(0 - 1), B(TRUE), F(200), S(<<"2">>)},
            ste \in {Absent, None, B(TRUE), I(1), S(<<"t","r","u","e">>)},
            st \in {Absent, None, F(50), F(0 - 10), I(1), S(<<"1">>)},
            t \in {Absent, None, I(5), I(0), S(<<"5">>)} } :
        Deviations(args) <= MaxDeviations }

\* downstream answers of a retrieval: a chunk has a score of 0.4 or 0.9 or
\* none, and its position as content or none
Scores == {None, F(40), F(90)}
ChunksOfLen(n) ==
    { [i \in 1..n |-> Chunk(sc[i], IF c[i] THEN S(<<Digits[i + 1]>>) ELSE None)] :
        sc \in [1..n -> Scores], c \in [1..n -> BOOLEAN] }

SearchResponses ==
    { Response("timeout", 0, None, FALSE, <<>>, 0),
      Response("error", 0, None, FALSE, <<>>, 0),
      Response("http", 404, None, FALSE, <<>>, 0),
      Response("http", 200, I(109), FALSE, <<>>, 0),
      Response("http", 200, I(0), FALSE, <<>>, 0) }
    \cup { Response("http", 200, I(0), TRUE, ch, 0) : ch \in UNION {ChunksOfLen(n) : n \in 0..MaxChunks} }

NextSearch ==
    \/ \E name \in {<<"a">>, <<"b">>}, args \in SearchArgs : CallTool(name, args)
    \/ \E resp \in SearchResponses : Respond(resp)
    \/ Return

SpecSearch == InitSearch /\ [][NextSearch]_vars

\* the resolvers of utils.py on explicit values, environment values and
\* defaults of every type
ExplicitValues ==
    { None, B(TRUE), B(FALSE), I(0), I(1), I(5), F(0), F(250),
      S(<<>>), S(<<" ">>), S(<<"x">>), S(<<"4", "2">>), S(<<" ", "7", " ">>), S(<<"1", ".", "5">>),
      S(<<"1">>), S(<<"0">>), S(<<" ", "Y", "e", "s", " ">>), S(<<"O", "F", "F">>), S(<<"n">>) }

EnvValues ==
    { None, S(<<>>), S(<<" ">>), S(<<"x">>), S(<<"4", "2">>), S(<<" ", "7", " ">>), S(<<"1", ".", "5">>),
      S(<<" ", "O", "n", " ">>), S(<<"n", "o">>) }

EnvNames == { None, S(<<>>), S(<<"E">>) }

DefaultsOf(kind) ==
    CASE kind = "str" -> {None, S(<<"d">>)}
      [] kind = "int" -> {None, I(9)}
      [] kind = "float" -> {None, F(950)}
      [] OTHER -> {None, B(TRUE), B(FALSE)}

NextResolver ==
    \E kind \in {"str", "int", "float", "bool"}, value \in ExplicitValues,
       env_var_name \in EnvNames, env \in EnvValues :
         \E default_value \in DefaultsOf(kind) :
            Resolve(kind, value, env_var_name, IF env_var_name = S(<<"E">>) THEN env ELSE None,
                    default_value)

SpecResolver == Init /\ [][NextResolver]_vars

-----------------------------------------------------------------------------
(* Claims on the loader *)

\* C4: whenever load returns without raising, the registry holds at least
\* one enabled dataset, so the server never serves an empty registry.
C4_LoadedRegistryNotEmpty ==
    phase = "serving" => \E i \in 1..Len(datasets) : datasets[i].ds.enabled.b

\* what the claims call a dataset entry that is valid on its own: enabled,
\* with an id or in dynamic-id mode, with a tool name and a description
\* that are not blank
Complete(e) ==
    /\ e.enabled.t = "absent" \/ e.enabled = B(TRUE)
    /\ e.search_tool_enabled.t = "absent" \/ e.search_tool_enabled = B(TRUE)
    /\ e.id_param_enabled = B(TRUE) \/ (IsStr(e.dataset_id) /\ Strip(e.dataset_id.s) # <<>>)
    /\ IsStr(e.search_tool_name) /\ Strip(e.search_tool_name.s) # <<>>
    /\ IsStr(e.search_tool_description) /\ Strip(e.search_tool_description.s) # <<>>

\* C5: after load no two datasets of the registry have the same
\* search_tool_name; of two entries with one tool name only the first
\* accepted one is registered.
C5_ToolNamesUnique ==
    phase = "serving" =>
        \A i, j \in 1..Len(datasets) :
            i # j => datasets[i].ds.search_tool_name # datasets[j].ds.search_tool_name

\* C6: an entry that is invalid on its own is discarded without raising and
\* the valid entries of the document are still registered; load fails only
\* when no dataset survives.
C6_LoadFailsOnlyWithoutDataset ==
    (document.kind = "map" /\ \E i \in 1..Len(document.datasets) : Complete(document.datasets[i]))
        => phase = "serving"


-----------------------------------------------------------------------------
(* Claims on the search handler *)

\* the invocation reached the search handler of dataset call.ds
InSearch == call.pc # "idle" /\ call.tool = "search_knowledge"

\* the constraints of the search tool as its schema states them: query a
\* non-blank string, knowledge_base_id a non-blank string in dynamic-id
\* mode, top_k (when sent) an integer of at least 1, score_threshold_enabled
\* (when sent) a boolean, score_threshold (when sent and not null) a number
\* that is not negative
ViolatesConstraint(ds, args) ==
    \/ args.query.t # "str" \/ Strip(args.query.s) = <<>>
    \/ ds.id_param_enabled.b
         /\ (args.knowledge_base_id.t # "str" \/ Strip(args.knowledge_base_id.s) = <<>>)
    \/ args.top_k.t # "absent" /\ ~(args.top_k.t = "int" /\ args.top_k.n >= 1)
    \/ args.score_threshold_enabled.t \notin {"absent", "bool"}
    \/ args.score_threshold.t \notin {"absent", "none"}
         /\ (args.score_threshold.t \notin {"int", "float"} \/ args.score_threshold.n < 0)

\* C1: a search call whose arguments violate a constraint fails with
\* InvalidToolArgumentError and issues no outbound HTTP request.
C1_ViolationFailsBeforeNetwork ==
    (InSearch /\ ViolatesConstraint(datasets[call.ds].ds, call.args))
        => /\ call.pc = "done"
           /\ call.outcome.error = "InvalidToolArgumentError"
           /\ requests = 0


\* the chunks of the downstream answer that carry a score and content, in
\* downstream order
Scored(chunks) ==
    LET Both(c) == c.similarity.t # "none" /\ c.content.t # "none"
    IN SelectSeq(chunks, Both)

\* the top_k the finished search call ran with
EffectiveTopK == IntOf(Get(call.args, "top_k", datasets[call.ds].ds.default_top_k))

SearchSucceeded == InSearch /\ call.pc = "done" /\ call.outcome.error = "ok"

\* C2: on success the result is the surviving chunks in descending score
\* order, equal scores in downstream order, cut to the first top_k: it has
\* between 1 and top_k entries, each a surviving chunk, and a surviving chunk
\* that was left out neither has a higher score than a returned one nor
\* precedes downstream a returned one of the same score.
C2_SortedStableTruncated ==
    SearchSucceeded =>
        LET result == call.outcome.knowledge_list
            from == Scored(call.response.chunks)
            \* the chunks carry their downstream position as content
            At(k) == CHOOSE i \in 1..Len(from) : from[i].content = k.content
            Returned == {At(result[i]) : i \in 1..Len(result)}
        IN /\ Len(result) >= 1 /\ Len(result) <= EffectiveTopK
           /\ Len(result) = IF Len(from) < EffectiveTopK THEN Len(from) ELSE EffectiveTopK
           /\ \A i \in 1..Len(result) :
                 \E j \in 1..Len(from) : /\ from[j].content = result[i].content
                                         /\ from[j].similarity = result[i].score
           /\ Cardinality(Returned) = Len(result)
           /\ \A i, j \in 1..Len(result) :
                 i < j => \/ Num(result[i].score) > Num(result[j].score)
                          \/ /\ result[i].score = result[j].score
                             /\ At(result[i]) < At(result[j])
           /\ \A o \in (1..Len(from)) \ Returned : \A i \in 1..Len(result) :
                 \/ Num(from[o].similarity) < Num(result[i].score)
                 \/ /\ from[o].similarity = result[i].score
                    /\ At(result[i]) < o

\* a search that returned two chunks of one score out of three survivors, the
\* first of which scored lower
C2_Witness ==
    /\ SearchSucceeded
    /\ EffectiveTopK = 2
    /\ Len(Scored(call.response.chunks)) = 3
    /\ call.response.chunks[1].similarity = F(40)
    /\ Len(call.outcome.knowledge_list) = 2
    /\ call.outcome.knowledge_list[1].score = F(90)
    /\ call.outcome.knowledge_list[2].score = F(90)


\* the downstream retrieval of the finished search call succeeded
Retrieved ==
    /\ InSearch /\ call.pc = "done"
    /\ call.response.kind = "http" /\ call.response.status = 200
    /\ call.response.code = I(0) /\ call.response.data

Min(a, b) == IF a < b THEN a ELSE b

\* C3 as stated: after a successful retrieval exactly the chunks that lack
\* both score and content are dropped, the call fails with DataError (404)
\* when none is left or none was returned, and succeeds with the others.
C3_DropsOnlyChunksLackingBoth ==
    Retrieved =>
        LET LacksBoth(c) == c.similarity.t = "none" /\ c.content.t = "none"
            HasOne(c) == ~LacksBoth(c)
            left == SelectSeq(call.response.chunks, HasOne)
        IN IF left = <<>>
           THEN call.outcome.error = "DataError" /\ call.outcome.code = 404
           ELSE /\ call.outcome.error = "ok"
                /\ Len(call.outcome.knowledge_list) = Min(Len(left), EffectiveTopK)

\* C3, amended: after a successful retrieval exactly the chunks that lack a
\* score or lack content are dropped; the call fails with DataError (404)
\* when none is left or none was returned, and otherwise succeeds with
\* chunks that all carry a score and content.
C3_DropsChunksLackingEither ==
    Retrieved =>
        LET left == Scored(call.response.chunks)
        IN IF left = <<>>
           THEN call.outcome.error = "DataError" /\ call.outcome.code = 404
           ELSE /\ call.outcome.error = "ok"
                /\ Len(call.outcome.knowledge_list) = Min(Len(left), EffectiveTopK)
                /\ \A i \in 1..Len(call.outcome.knowledge_list) :
                      /\ call.outcome.knowledge_list[i].score.t # "none"
                      /\ call.outcome.knowledge_list[i].content.t # "none"

\* a search whose answer held a chunk with a score but no content, a chunk
\* with content but no score and a complete chunk, and returned the last
C3_Witness ==
    /\ Retrieved
    /\ Len(call.response.chunks) = 3
    /\ \E i, j \in 1..3 :
          /\ call.response.chunks[i].similarity.t = "none" /\ call.response.chunks[i].content.t # "none"
          /\ call.response.chunks[j].similarity.t # "none" /\ call.response.chunks[j].content.t = "none"
    /\ call.outcome.error = "ok"
    /\ Len(call.outcome.knowledge_list) = 1


-----------------------------------------------------------------------------
(* Claims on the property resolver *)

\* The values each resolver can use, written out by hand for the explicit
\* and environment values of the resolver specification; Absent marks a
\* value the resolver cannot use.
UsableExplicit(kind, value) ==
    CASE kind = "str" ->
           (CASE value \in {None, S(<<>>), S(<<" ">>)} -> Absent
              [] value = B(TRUE) -> S(<<"T","r","u","e">>)
              [] value = B(FALSE) -> S(<<"F","a","l","s","e">>)
              [] value = I(0) -> S(<<"0">>)
              [] value = I(1) -> S(<<"1">>)
              [] value = I(5) -> S(<<"5">>)
              [] value = F(0) -> S(<<"0",".","0">>)
              [] value = F(250) -> S(<<"2",".","5">>)
              [] OTHER -> value)
      [] kind = "int" ->
           (CASE value.t \in {"int", "bool"} -> value
              [] value = S(<<"4","2">>) -> I(42)
              [] value = S(<<" ","7"," ">>) -> I(7)
              [] value = S(<<"1">>) -> I(1)
              [] value = S(<<"0">>) -> I(0)
              [] OTHER -> Absent)
      [] kind = "float" ->
           (CASE value.t = "float" -> value
              [] value = I(0) -> F(0)
              [] value = I(1) -> F(100)
              [] value = I(5) -> F(500)
              [] value = S(<<"4","2">>) -> F(4200)
              [] value = S(<<" ","7"," ">>) -> F(700)
              [] value = S(<<"1",".","5">>) -> F(150)
              [] value = S(<<"1">>) -> F(100)
              [] value = S(<<"0">>) -> F(0)
              [] OTHER -> Absent)
      [] OTHER ->
           (CASE value.t = "bool" -> value
              [] value \in {I(1), I(5), F(250), S(<<"1">>), S(<<" ","Y","e","s"," ">>)} -> B(TRUE)
              [] value \in {I(0), F(0), S(<<"0">>), S(<<"O","F","F">>), S(<<"n">>)} -> B(FALSE)
              [] OTHER -> Absent)

UsableEnv(kind, env) ==
    CASE kind = "str" -> IF env \in {None, S(<<>>), S(<<" ">>)} THEN Absent ELSE env
      [] kind = "int" ->
           (CASE env = S(<<"4","2">>) -> I(42)
              [] env = S(<<" ","7"," ">>) -> I(7)
              [] OTHER -> Absent)
      [] kind = "float" ->
           (CASE env = S(<<"4","2">>) -> F(4200)
              [] env = S(<<" ","7"," ">>) -> F(700)
              [] env = S(<<"1",".","5">>) -> F(150)
              [] OTHER -> Absent)
      [] OTHER ->
           (CASE env = S(<<" ","O","n"," ">>) -> B(TRUE)
              [] env = S(<<"n","o">>) -> B(FALSE)
              [] OTHER -> Absent)

Resolved == resolved.kind # "none"

\* C7: each resolver returns the usable explicit value whatever the
\* environment variable and the default are; otherwise the usable value of
\* the named environment variable whatever the default is; otherwise the
\* default, which is None when none was given.  A blank or unparsable
\* explicit value falls through to the next tier.
C7_TierPrecedence ==
    Resolved =>
        LET explicit == UsableExplicit(resolved.kind, resolved.value)
            environment == UsableEnv(resolved.kind, resolved.env)
        IN resolved.result = IF explicit # Absent THEN explicit
                             ELSE IF environment # Absent THEN environment
                             ELSE resolved.default_value

\* an int resolution whose explicit value is blank, whose environment
\* variable holds " 7 " and whose default is 9
C7_Witness ==
    /\ resolved.kind = "int"
    /\ resolved.value = S(<<" ">>)
    /\ resolved.env = S(<<" ","7"," ">>)
    /\ resolved.default_value = I(9)
    /\ resolved.result = I(7)


\* the spellings of the resolver specification that trim and lower-case to
\* a word of true/yes/1/y/on, and to a word of false/no/0/n/off
SpelledTrue == {S(<<"1">>), S(<<" ","Y","e","s"," ">>), S(<<" ","O","n"," ">>)}
SpelledFalse == {S(<<"0">>), S(<<"O","F","F">>), S(<<"n">>), S(<<"n","o">>)}

BoolResolved == resolved.kind = "bool"

\* what the environment tier and the default tier of get_bool_property give
BoolFromEnvOrDefault ==
    IF resolved.env \in SpelledTrue THEN B(TRUE)
    ELSE IF resolved.env \in SpelledFalse THEN B(FALSE)
    ELSE resolved.default_value

\* C8 as stated: get_bool_property accepts exactly the strings
\* true/yes/1/y/on and false/no/0/n/off, trimmed and in any case; any other
\* value that is not a boolean is treated as absent and the environment
\* variable, then the default, is consulted.
C8_OnlyWordsAccepted ==
    BoolResolved =>
        resolved.result = IF resolved.value.t = "bool" THEN resolved.value
                          ELSE IF resolved.value \in SpelledTrue THEN B(TRUE)
                          ELSE IF resolved.value \in SpelledFalse THEN B(FALSE)
                          ELSE BoolFromEnvOrDefault

\* C8, amended: as an explicit value get_bool_property accepts a boolean,
\* the strings true/yes/1/y/on and false/no/0/n/off (trimmed, any case), and
\* an int or a float, which gives False when it is zero and True otherwise;
\* as environment value it accepts the strings only.  Any other value is
\* treated as absent and the next tier is consulted.
C8_WordsAndNumbersAccepted ==
    BoolResolved =>
        resolved.result = IF resolved.value.t = "bool" THEN resolved.value
                          ELSE IF resolved.value \in SpelledTrue THEN B(TRUE)
                          ELSE IF resolved.value \in SpelledFalse THEN B(FALSE)
                          ELSE IF resolved.value.t \in {"int", "float"} THEN B(resolved.value.n # 0)
                          ELSE BoolFromEnvOrDefault

\* a bool resolution of the explicit int 5 against an environment variable
\* that says no and a default of False: the answer is True
C8_Witness ==
    /\ BoolResolved
    /\ resolved.value = I(5)
    /\ resolved.env = S(<<"n","o">>)
    /\ resolved.default_value = B(FALSE)
    /\ resolved.result = B(TRUE)


-----------------------------------------------------------------------------
(* Claims on the tool registry and the dispatch *)

ParamNames(tool) == {tool.params[i].name : i \in 1..Len(tool.params)}
ParamType(tool, name) == (CHOOSE q \in {tool.params[i] : i \in 1..Len(tool.params)} : q.name = name).type
Required(tool) == {tool.required[i] : i \in 1..Len(tool.required)}
TimeoutName == IF properties.timeout_param_enabled THEN {"timeout"} ELSE {}

\* the registered datasets whose search tool is enabled, in insertion order
Searchable ==
    LET Enabled(d) == d.ds.search_tool_enabled.b
    IN SelectSeq(datasets, Enabled)

\* C9: list_tools answers one tool per registered dataset with an enabled
\* search tool, in insertion order, each with query (string, required),
\* top_k and semantic_weights (optional), knowledge_base_id (string,
\* required) exactly in dynamic-id mode and timeout (optional) exactly when
\* timeout_param_enabled; then the list-bases tool (page, limit) exactly when
\* enabled, then the get-base tool (knowledge_base_id required) exactly when
\* enabled, both with timeout under the same flag.
C9_ToolListing ==
    tools.listed =>
        LET t == tools.tools
            n == Len(Searchable)
            l == IF properties.list_bases_enabled THEN 1 ELSE 0
            g == IF properties.get_base_enabled THEN 1 ELSE 0
        IN /\ Len(t) = n + l + g
           /\ \A i \in 1..n :
                 LET ds == Searchable[i].ds
                     id == IF ds.id_param_enabled.b THEN {"knowledge_base_id"} ELSE {}
                 IN /\ t[i].name = ds.search_tool_name.s
                    /\ ParamNames(t[i]) = {"query", "top_k", "semantic_weights"} \cup id \cup TimeoutName
                    /\ Len(t[i].params) = Cardinality(ParamNames(t[i]))
                    /\ Required(t[i]) = {"query"} \cup id
                    /\ ParamType(t[i], "query") = "string"
                    /\ id # {} => ParamType(t[i], "knowledge_base_id") = "string"
           /\ l = 1 => /\ t[n + 1].name = properties.list_bases_name
                       /\ ParamNames(t[n + 1]) = {"page", "limit"} \cup TimeoutName
                       /\ Required(t[n + 1]) = {}
           /\ g = 1 => /\ t[n + l + 1].name = properties.get_base_name
                       /\ ParamNames(t[n + l + 1]) = {"knowledge_base_id"} \cup TimeoutName
                       /\ Required(t[n + l + 1]) = {"knowledge_base_id"}

\* a listing of four tools: a static dataset, a dynamic dataset, list-bases
\* and get-base, with the timeout parameter on
C9_Witness ==
    /\ tools.listed
    /\ Len(datasets) = 2
    /\ ~datasets[1].ds.id_param_enabled.b
    /\ datasets[2].ds.id_param_enabled.b
    /\ properties.timeout_param_enabled
    /\ properties.list_bases_enabled
    /\ properties.get_base_enabled
    /\ Len(tools.tools) = 4
    /\ tools.tools[3].name = list_knowledge_bases_name


\* the tool names of the dispatch specification with the blanks around them
\* removed
Trimmed(name) ==
    CASE name = <<" ">> -> <<>>
      [] name = <<"a", " ">> -> <<"a">>
      [] OTHER -> name

Called == call.pc # "idle"

\* the datasets whose enabled search tool carries the name
Named(name) ==
    {i \in 1..Len(datasets) : /\ datasets[i].ds.search_tool_enabled.b
                              /\ datasets[i].ds.search_tool_name.s = name}

ListedNames == [i \in 1..Len(list_tools(properties, datasets)) |-> list_tools(properties, datasets)[i].name]

\* the outcome of an invocation under the name n, compared as `as_sent`
\* spells it: the dataset's search handler first, then list-bases, then
\* get-base, and ToolNotFoundError with the listed names, no handler and no
\* request when nothing matches
RoutedAs(n) ==
    IF Named(n) # {}
    THEN /\ call.tool = "search_knowledge"
         /\ call.ds \in Named(n) /\ \A j \in Named(n) : call.ds <= j
    ELSE IF properties.list_bases_enabled /\ properties.list_bases_name = n
    THEN call.tool = "list_knowledge_bases"
    ELSE IF properties.get_base_enabled /\ properties.get_base_name = n
    THEN call.tool = "get_knowledge_base"
    ELSE /\ call.pc = "done"
         /\ call.outcome.error = "ToolNotFoundError"
         /\ call.outcome.names = ListedNames
         /\ call.tool = "none"
         /\ call.request = NoRequest
         /\ requests = 0

\* C10 as stated: call_tool routes the name it is given to the dataset
\* whose search tool name equals it, else to list-bases, else to get-base
\* (a dataset wins a collision); a name that matches none fails with
\* ToolNotFoundError listing the names list_tools emits, and no handler or
\* request runs.
C10_RoutesNameAsSent == Called => RoutedAs(call.name)

\* C10, amended: call_tool rejects a missing or blank name with
\* ToolExecutionError (400) before any matching, and matches every other
\* name with the blanks around it removed: the dataset whose search tool
\* name equals it, else list-bases, else get-base (a dataset wins a
\* collision); a name that matches none fails with ToolNotFoundError listing
\* the names list_tools emits, and no handler or request runs.
C10_RoutesTrimmedName ==
    Called =>
        IF Trimmed(call.name) = <<>>
        THEN /\ call.pc = "done"
             /\ call.outcome.error = "ToolExecutionError" /\ call.outcome.code = 400
             /\ call.tool = "none"
             /\ requests = 0
        ELSE RoutedAs(Trimmed(call.name))

\* a call of the unknown tool z on a server with a static dataset a, a
\* dynamic dataset b, a list-bases tool also named b and the get-base tool
C10_Witness ==
    /\ Called
    /\ call.name = <<"z">>
    /\ Len(datasets) = 2
    /\ properties.list_bases_enabled /\ properties.list_bases_name = <<"b">>
    /\ properties.get_base_enabled
    /\ call.outcome.error = "ToolNotFoundError"
    /\ call.outcome.names = <<<<"a">>, <<"b">>, <<"b">>, get_knowledge_base_info_name>>
    /\ requests = 0


-----------------------------------------------------------------------------
(* The three handlers on one loaded configuration *)

\* a dataset entry with credentials of its own
EntryWith(e, base_url, api_key) == [e EXCEPT !.base_url = base_url, !.api_key = api_key]

\* the credentials a dataset entry may carry: none, both, one of the two,
\* and a pair one half of which is blank
CredentialPairs ==
    { <<Absent, Absent>>, <<S(<<"v">>), S(<<"w">>)>>, <<S(<<"v">>), Absent>>, <<Absent, S(<<"w">>)>>,
      <<S(<<" ">>), S(<<"w">>)>>, <<S(<<"v">>), S(<<" ">>)>> }

\* a static dataset A behind tool a, a dynamic one behind tool b, list-bases
\* and get-base under their default names, with and without the timeout
\* parameter
HandlerDocuments ==
    { Document("map", tpe, B(TRUE), Absent, B(TRUE), Absent,
               << EntryWith(Entry(Absent, Absent, S(<<"A">>), Absent, S(<<"a">>), Description), c[1], c[2]),
                  Entry(Absent, B(TRUE), Absent, Absent, S(<<"b">>), Description) >>) :
        tpe \in {Absent, B(TRUE)}, c \in CredentialPairs }

InitHandlers ==
    /\ phase = "serving"
    /\ document \in HandlerDocuments
    /\ properties = _load_properties(DefaultProperties, document)
    /\ datasets = _load_datasets(<<>>, document).reg
    /\ tools = NoTools
    /\ call = Idle
    /\ requests = 0
    /\ resolved = NoResolution

\* the timeout, page and limit arguments a caller may send
TimeoutArgs == {Absent, None, I(5), I(0), F(250), S(<<"5">>)}
PageArgs == {Absent, None, I(2), I(0), S(<<"2">>), B(TRUE)}
LimitArgs == {Absent, None, I(100), I(101), I(0), F(500)}

\* calls with a query: an id and a timeout of every kind, or a page and a
\* limit of every kind
HandlerArgs ==
    { Args(S(<<"q">>), id, Absent, Absent, Absent, t, Absent, Absent) :
        id \in {Absent, S(<<"K">>), S(<<"A">>)}, t \in TimeoutArgs }
    \cup { Args(S(<<"q">>), S(<<"K">>), Absent, Absent, Absent, Absent, page, limit) :
             page \in PageArgs, limit \in LimitArgs }

HandlerNames == { <<"a">>, <<"b">>, list_knowledge_bases_name, get_knowledge_base_info_name }

\* downstream answers: the exchange times out or breaks, the outer status is
\* not 200, the outer status is 200 under every kind of inner code, and a
\* good answer with no data, with no entry and with one entry
InnerCodes == { None, I(0), I(100), I(102), I(109), I(7), S(<<"0">>), F(0), F(10000) }

HandlerResponses ==
    { Response("timeout", 0, None, FALSE, <<>>, 0), Response("error", 0, None, FALSE, <<>>, 0) }
    \cup { Response("http", st, None, FALSE, <<>>, 0) : st \in {401, 404, 500} }
    \cup { Response("http", 200, code, TRUE, <<Chunk(F(90), S(<<"1">>))>>, 1) : code \in InnerCodes }
    \cup { Response("http", 200, I(0), FALSE, <<>>, 0), Response("http", 200, I(0), TRUE, <<>>, 0) }

NextHandlers ==
    \/ \E name \in HandlerNames, args \in HandlerArgs : CallTool(name, args)
    \/ \E resp \in HandlerResponses : Respond(resp)
    \/ Return

SpecHandlers == InitHandlers /\ [][NextHandlers]_vars


-----------------------------------------------------------------------------
(* Claims on the handlers *)

\* a request of the current invocation went out
Sent == call.pc # "idle" /\ call.request.op # "none"

\* the placeholder keys under which the dynamic-id datasets are registered
PlaceholderKeys == {datasets[i].key : i \in {j \in 1..Len(datasets) : datasets[j].ds.id_param_enabled.b}}

Handled == call.pc # "idle" /\ call.tool # "none"

\* the arguments other than timeout satisfy the constraints of the tool
\* that was called
ValidButTimeout ==
    LET args == call.args
        IdGiven == args.knowledge_base_id.t = "str" /\ Strip(args.knowledge_base_id.s) # <<>>
    IN CASE call.tool = "search_knowledge" ->
              /\ ~ViolatesConstraint(datasets[call.ds].ds, args)
         [] call.tool = "list_knowledge_bases" ->
              /\ args.page.t \in {"absent", "none"} \/ (args.page.t = "int" /\ args.page.n >= 1)
              /\ args.limit.t \in {"absent", "none"}
                    \/ (args.limit.t = "int" /\ args.limit.n >= 1 /\ args.limit.n <= 100)
         [] OTHER -> IdGiven

\* C12: with timeout_param_enabled off, every handler sends its request
\* under the server-wide timeout and no timeout argument, whatever its
\* value or type, gets the call rejected.
C12_TimeoutArgumentIgnored ==
    (Handled /\ ~properties.timeout_param_enabled) =>
        /\ ValidButTimeout => call.outcome.error # "InvalidToolArgumentError"
        /\ Sent => call.request.timeout = properties.timeout

\* a request sent under the server-wide 60.0 seconds by a call that
\* carried the text "5" as timeout, the timeout parameter being off
C12_Witness ==
    /\ Sent
    /\ ~properties.timeout_param_enabled
    /\ call.args.timeout = S(<<"5">>)
    /\ call.request.timeout = F(6000)


\* C13: with timeout_param_enabled on, timeout stays optional: a call that
\* omits it and is otherwise valid is not rejected and runs under the
\* server-wide timeout, and a call that supplies a valid timeout runs under
\* the supplied value.
C13_TimeoutOptional ==
    (Handled /\ properties.timeout_param_enabled /\ ValidButTimeout) =>
        /\ call.args.timeout.t = "absent" =>
              /\ call.outcome.error # "InvalidToolArgumentError"
              /\ Sent => call.request.timeout = properties.timeout
        /\ call.args.timeout = I(5) =>
              /\ call.outcome.error # "InvalidToolArgumentError"
              /\ Sent => call.request.timeout = I(5)


\* a credential that is present and not blank
Given(v) == v.t = "str" /\ Strip(v.s) # <<>>

\* C14: search sends its request with the dataset's own base_url and
\* api_key when both are present and not blank and otherwise with the
\* server-wide default_base_url and default_api_key, never with a base URL
\* of one level and a key of the other.
C14_CredentialPair ==
    (Handled /\ call.tool = "search_knowledge" /\ call.outcome.error # "InvalidToolArgumentError") =>
        LET ds == datasets[call.ds].ds
            own == Given(ds.base_url) /\ Given(ds.api_key)
        IN /\ Sent
           /\ call.request.base_url = IF own THEN ds.base_url ELSE properties.default_base_url
           /\ call.request.api_key = IF own THEN ds.api_key ELSE properties.default_api_key


\* the downstream answered the current invocation with outer status 200
\* and a body that carries one entry
Answered200 ==
    /\ Handled /\ call.pc = "done"
    /\ call.response.kind = "http" /\ call.response.status = 200
    /\ call.response.data /\ call.response.rows = 1

\* C15: under outer status 200 the inner code alone decides, for all three
\* operations: 0 is success, 100 and 102 give an error of code 404, 109 an
\* error of code 401, and any other, missing or non-integer inner code an
\* error of code 500.
C15_InnerCodeDecides ==
    Answered200 =>
        LET code == call.response.code
        IN IF code = I(0) THEN call.outcome.error = "ok"
           ELSE /\ call.outcome.error = "ToolAPIError"
                /\ call.outcome.code = IF code \in {I(100), I(102)} THEN 404
                                       ELSE IF code = I(109) THEN 401
                                       ELSE 500


\* the downstream exchange of the current invocation is over
Exchanged == Handled /\ call.pc = "done" /\ call.response.kind # "none"

\* C16: a failed downstream exchange reaches the caller as ToolAPIError
\* with the downstream status: the outer HTTP status when it is not 200,
\* 408 when the client-side timeout expires, 500 for any other failure of
\* the exchange; a timeout never carries another code.
C16_UpstreamStatus ==
    Exchanged =>
        /\ call.response.kind = "timeout" =>
              call.outcome.error = "ToolAPIError" /\ call.outcome.code = 408
        /\ call.response.kind = "error" =>
              call.outcome.error = "ToolAPIError" /\ call.outcome.code = 500
        /\ (call.response.kind = "http" /\ call.response.status # 200) =>
              call.outcome.error = "ToolAPIError" /\ call.outcome.code = call.response.status

\* a list-bases call whose exchange timed out
C16_Witness ==
    /\ Exchanged
    /\ call.tool = "list_knowledge_bases"
    /\ call.response.kind = "timeout"
    /\ call.outcome.error = "ToolAPIError"
    /\ call.outcome.code = 408


\* the downstream answered a get-base call with status 200, inner code 0
\* and no entry
UnknownBase ==
    /\ Exchanged /\ call.tool = "get_knowledge_base"
    /\ call.response.kind = "http" /\ call.response.status = 200
    /\ call.response.code = I(0) /\ call.response.rows = 0

\* C17: get-base for an id the downstream does not know fails with an error
\* of its own, which is neither the DataError the list handler raises for
\* zero entries nor the ToolAPIError of a failed downstream call.
C17_NotFoundDistinct ==
    UnknownBase =>
        /\ call.outcome.error \notin {"ok", "none"}
        /\ call.outcome.error # "DataError"
        /\ call.outcome.error # "ToolAPIError"


InList == Handled /\ call.tool = "list_knowledge_bases"

\* page is omitted or a positive integer; limit is omitted or an integer
\* from 1 to 100 (null counts as omitted)
PageOk(page) == page.t \in {"absent", "none"} \/ (page.t = "int" /\ page.n >= 1)
LimitOk(limit) == limit.t \in {"absent", "none"} \/ (limit.t = "int" /\ limit.n >= 1 /\ limit.n <= 100)

\* C18: list bases rejects a page that is not a positive integer and a
\* limit that is not an integer from 1 to 100 with InvalidToolArgumentError
\* before any request, sends the validated page and limit (1 and 20 when
\* omitted) as page and page_size, and fails with DataError (404) when a
\* good downstream answer carries no entry.
C18_ListArguments ==
    InList =>
        /\ (~PageOk(call.args.page) \/ ~LimitOk(call.args.limit)) =>
              /\ call.pc = "done"
              /\ call.outcome.error = "InvalidToolArgumentError"
              /\ requests = 0
        /\ Sent =>
              /\ call.request.page = IF call.args.page.t \in {"absent", "none"} THEN I(1) ELSE call.args.page
              /\ call.request.page_size =
                    IF call.args.limit.t \in {"absent", "none"} THEN I(20) ELSE call.args.limit
        /\ (call.pc = "done" /\ call.response.kind = "http" /\ call.response.status = 200
              /\ call.response.code = I(0) /\ call.response.rows = 0) =>
              call.outcome.error = "DataError" /\ call.outcome.code = 404


\* ---------------------------------------------------------------------
\* The listing and the single-base lookup over every parser_config
\* ---------------------------------------------------------------------

\* layout_recognize of an entry: null, empty, and two modes
Layouts == { None, S(<<>>), S(<<"n","a","i","v","e">>), S(<<"D","e","e","p","D","O","C">>) }

\* graphrag and raptor of an entry: null, {}, a dict without the flag, and
\* the flag true and false
Dicts == { NoDict, Dict("empty", Absent), Dict("dict", Absent), Dict("dict", B(TRUE)), Dict("dict", B(FALSE)) }

ParserConfigs ==
    { NoParserConfig }
    \cup { ParserConfig(TRUE, l, g, r) : l \in Layouts, g \in Dicts, r \in Dicts }

\* one call of each of the two tools, valid in every argument
BasesArgs == { Args(S(<<"q">>), S(<<"K">>), Absent, Absent, Absent, I(5), Absent, Absent) }

BasesNames == { list_knowledge_bases_name, get_knowledge_base_info_name }

\* a good answer with one entry under every parser_config, and a failed
\* exchange
BasesResponses ==
    { [Response("http", 200, I(0), TRUE, <<>>, 1) EXCEPT !.parser_config = pc] : pc \in ParserConfigs }
    \cup { Response("http", 500, None, FALSE, <<>>, 0) }

NextBases ==
    \/ \E name \in BasesNames, args \in BasesArgs : CallTool(name, args)
    \/ \E resp \in BasesResponses : Respond(resp)
    \/ Return

SpecBases == InitHandlers /\ [][NextBases]_vars

\* a listing or a lookup has produced its result
BaseResult ==
    /\ call.pc = "done"
    /\ call.tool \in {"list_knowledge_bases", "get_knowledge_base"}
    /\ call.outcome.error = "ok"

GraphRAG == <<"G","r","a","p","h","R","A","G">>
RAPTOR == <<"R","A","P","T","O","R">>

\* the three candidate labels of an entry in order, None where one does
\* not apply
Candidates(pc) ==
    << IF pc.present THEN pc.layout_recognize ELSE None,
       IF pc.present /\ pc.graphrag.t = "dict" /\ pc.graphrag.use = B(TRUE) THEN S(GraphRAG) ELSE None,
       IF pc.present /\ pc.raptor.t = "dict" /\ pc.raptor.use = B(TRUE) THEN S(RAPTOR) ELSE None >>

NonNull(v) == ~IsNone(v)
NonEmpty(v) == ~IsNone(v) /\ v.s # <<>>

\* the texts of a sequence of labels
RECURSIVE Texts(_)
Texts(labels) == IF labels = <<>> THEN <<>> ELSE <<Head(labels).s>> \o Texts(Tail(labels))

\* the labels joined by " + ", None when there is none
Joined(labels) == IF labels = <<>> THEN None ELSE S(Join(Texts(labels), <<" ", "+", " ">>))

\* C19 (as stated): in the result of the listing and of the lookup,
\* indexing_technique is the non-null labels among (layout-recognition mode,
\* "GraphRAG" when graphrag.use_graphrag is true, "RAPTOR" when
\* raptor.use_raptor is true) in that order joined by " + ", and is absent
\* when no label is non-null.
C19_NonNullLabelsJoined ==
    BaseResult =>
        call.outcome.indexing_technique =
            Joined(SelectSeq(Candidates(call.response.parser_config), NonNull))

\* C19 (amended): indexing_technique is the labels that are neither null nor
\* empty, in that order joined by " + ", and is absent when there is none:
\* an empty layout-recognition mode contributes nothing.
C19_NonEmptyLabelsJoined ==
    BaseResult =>
        call.outcome.indexing_technique =
            Joined(SelectSeq(Candidates(call.response.parser_config), NonEmpty))

\* layout "naive", use_graphrag true and raptor absent give "naive + GraphRAG"
C19_Witness ==
    /\ BaseResult
    /\ call.response.parser_config =
         ParserConfig(TRUE, S(<<"n","a","i","v","e">>), Dict("dict", B(TRUE)), NoDict)
    /\ call.outcome.indexing_technique =
         S(<<"n","a","i","v","e"," ","+"," ","G","r","a","p","h","R","A","G">>)


\* ---------------------------------------------------------------------
\* Claims on the dispatch boundary
\* ---------------------------------------------------------------------

\* call_tool has reached its end
Ended == call.pc = "done"

\* the failure classes a caller may see
SurfacedErrors == {"InvalidToolArgumentError", "ToolNotFoundError", "ToolAPIError", "DataError",
                   "ToolExecutionError"}

\* the handler raised an exception that is not a ToolError
Unexpected == Ended /\ call.outcome.raised \notin (ToolErrors \cup {"none"})

ConfiguredWeights == { Absent, F(30) }

\* semantic_weights of a call: not supplied, 0.3 or 0.8
SuppliedWeights == { Absent, F(30), F(80) }

\* a static dataset A behind tool a and a dynamic one behind tool b
WeightsDocuments ==
    { Document("map", Absent, Absent, Absent, Absent, Absent,
               << [Entry(Absent, Absent, S(<<"A">>), Absent, S(<<"a">>), Description)
                     EXCEPT !.default_weights = w],
                  [Entry(Absent, B(TRUE), Absent, Absent, S(<<"b">>), Description)
                     EXCEPT !.default_weights = w] >>) :
        w \in ConfiguredWeights }

InitWeights ==
    /\ phase = "serving"
    /\ document \in WeightsDocuments
    /\ properties = _load_properties(DefaultProperties, document)
    /\ datasets = _load_datasets(<<>>, document).reg
    /\ tools = NoTools
    /\ call = Idle
    /\ requests = 0
    /\ resolved = NoResolution

WeightsArgs ==
    { [Args(S(<<"q">>), S(<<"K">>), top_k, Absent, Absent, Absent, Absent, Absent)
         EXCEPT !.semantic_weights = w] :
        top_k \in {Absent, I(1), I(2), I(5)}, w \in SuppliedWeights }

WeightsResponses ==
    { Response("http", 404, None, FALSE, <<>>, 0),
      Response("http", 200, I(0), TRUE, <<Chunk(F(90), S(<<"1">>))>>, 0) }

NextWeights ==
    \/ \E name \in {<<"a">>, <<"b">>}, args \in WeightsArgs : CallTool(name, args)
    \/ \E resp \in WeightsResponses : Respond(resp)
    \/ Return

SpecWeights == InitWeights /\ [][NextWeights]_vars

\* a retrieval request has gone out
Retrieving == call.pc # "idle" /\ call.request.op = "retrieval"

\* C21: the vector_similarity_weight a search sends downstream is the
\* caller's semantic_weights when supplied, and otherwise the dataset's
\* default_weights (0.6 unless configured).
C21_WeightSent ==
    Retrieving =>
        call.request.vector_similarity_weight =
            IF call.args.semantic_weights.t # "absent"
            THEN call.args.semantic_weights
            ELSE datasets[call.ds].ds.default_weights


\* ---------------------------------------------------------------------
\* SearchKnowledgeResult.get_simple_text
\* ---------------------------------------------------------------------

\* SearchKnowledgeResult(knowledge_list, knowledge_base_id)
SearchKnowledgeResult(knowledge_list, knowledge_base_id) ==
    [knowledge_list |-> knowledge_list, knowledge_base_id |-> knowledge_base_id]

\* f"{i + 1}. {knowledge.content}{f' (score: {knowledge.score})' if knowledge.score is not None else ''}"
SimpleItem_always_scored(i, knowledge) ==
    NatToStr(i) \o <<".", " ">> \o knowledge.content.s \o <<" ", "(", "s", "c", "o", "r", "e", ":", " ">> \o PyStr(knowledge.score) \o <<")">>

SimpleItem(i, knowledge) ==
    NatToStr(i) \o <<".", " ">> \o knowledge.content.s
    \o (IF IsNone(knowledge.score) THEN <<>> ELSE <<" ", "(", "s", "c", "o", "r", "e", ":", " ">> \o PyStr(knowledge.score) \o <<")">>)

get_simple_text(result) ==
    LET n == Len(result.knowledge_list)
    IN IF n = 0 THEN <<"*", "*", "N", "o", " ", "k", "n", "o", "w", "l", "e", "d", "g", "e", " ", "f", "o", "u", "n", "d", ".", "*", "*">>
       ELSE <<"*", "*", "F", "o", "u", "n", "d", " ">> \o NatToStr(n) \o <<" ", "k", "n", "o", "w", "l", "e", "d", "g", "e", "(", "s", ")", "*", "*", " ", "(", "b", "a", "s", "e", " ", "I", "D", ":", " ">>
            \o PyStr(result.knowledge_base_id) \o <<")", ":", "\n", "\n">>
            \o Join([i \in 1..n |-> SimpleItem(i, result.knowledge_list[i])], <<"\n">>)

\* one call of get_simple_text
Render(result) ==
    /\ resolved = NoResolution
    /\ resolved' = [ kind |-> "text", value |-> result, env_var_name |-> None, env |-> None,
                     default_value |-> None, result |-> S(get_simple_text(result)) ]
    /\ UNCHANGED <<phase, document, properties, datasets, tools, call, requests>>

\* results: up to MaxKnowledge entries, each with a score of 0.9 or 0.7 or
\* none and a content of one line or of two; a base id or none
MaxKnowledge == 2

KnowledgePool ==
    { Knowledge(score, S(content)) :
        score \in {None, F(90), F(70)}, content \in {<<"c">>, <<"d">>, <<"a", "\n", "b">>} }

Results ==
    { SearchKnowledgeResult(kl, id) :
        kl \in UNION { [1..n -> KnowledgePool] : n \in 0..MaxKnowledge }, id \in {None, S(<<"7">>)} }

NextText == \E result \in Results : Render(result)

SpecText == Init /\ [][NextText]_vars

Rendered == resolved.kind = "text"

\* the lines of a text
RECURSIVE Lines(_)
Lines(s) ==
    IF \A i \in 1..Len(s) : s[i] # "\n" THEN <<s>>
    ELSE LET k == CHOOSE i \in 1..Len(s) : s[i] = "\n" /\ \A j \in 1..(i - 1) : s[j] # "\n"
         IN <<SubSeq(s, 1, k - 1)>> \o Lines(SubSeq(s, k + 1, Len(s)))

Header(result) ==
    <<"*", "*", "F", "o", "u", "n", "d", " ">> \o NatToStr(Len(result.knowledge_list)) \o <<" ", "k", "n", "o", "w", "l", "e", "d", "g", "e", "(", "s", ")", "*", "*", " ", "(", "b", "a", "s", "e", " ", "I", "D", ":", " ">>
    \o PyStr(result.knowledge_base_id) \o <<")", ":">>

\* C22 (as stated): get_simple_text gives "**No knowledge found.**" for an
\* empty list, and for n entries the header, a blank line and exactly n
\* lines "i. <content> (score: <score>)" numbered from 1 in list order.
C22_HeaderAndScoredLines ==
    Rendered =>
        LET result == resolved.value
            n == Len(result.knowledge_list)
            lines == Lines(resolved.result.s)
        IN IF n = 0 THEN resolved.result.s = <<"*", "*", "N", "o", " ", "k", "n", "o", "w", "l", "e", "d", "g", "e", " ", "f", "o", "u", "n", "d", ".", "*", "*">>
           ELSE /\ Len(lines) = n + 2
                /\ lines[1] = Header(result)
                /\ lines[2] = <<>>
                /\ \A i \in 1..n :
                     lines[i + 2] = NatToStr(i) \o <<".", " ">> \o result.knowledge_list[i].content.s
                                    \o <<" ", "(", "s", "c", "o", "r", "e", ":", " ">> \o PyStr(result.knowledge_list[i].score) \o <<")">>

\* the item of entry i: its number and content, and its score when it has one
Item(i, knowledge) ==
    IF IsNone(knowledge.score) THEN NatToStr(i) \o <<".", " ">> \o knowledge.content.s
    ELSE NatToStr(i) \o <<".", " ">> \o knowledge.content.s \o <<" ", "(", "s", "c", "o", "r", "e", ":", " ">> \o PyStr(knowledge.score) \o <<")">>

\* the items of entries k..n, each but the last followed by a newline
RECURSIVE ItemsFrom(_, _)
ItemsFrom(k, list) ==
    IF k > Len(list) THEN <<>>
    ELSE Item(k, list[k]) \o (IF k < Len(list) THEN <<"\n">> ELSE <<>>) \o ItemsFrom(k + 1, list)

\* C22 (amended): get_simple_text gives "**No knowledge found.**" for an
\* empty list, and for n entries the header, a blank line and the n items
\* "i. <content>", each followed by " (score: <score>)" only when its score
\* is not null, numbered from 1 in list order and joined by newlines; an
\* item takes as many lines as its content has.
C22_HeaderAndItems ==
    Rendered =>
        LET result == resolved.value
        IN IF result.knowledge_list = <<>> THEN resolved.result.s = <<"*", "*", "N", "o", " ", "k", "n", "o", "w", "l", "e", "d", "g", "e", " ", "f", "o", "u", "n", "d", ".", "*", "*">>
           ELSE resolved.result.s =
                  Header(result) \o <<"\n", "\n">> \o ItemsFrom(1, result.knowledge_list)

\* two entries, the second without a score
C22_Witness ==
    /\ Rendered
    /\ resolved.value = SearchKnowledgeResult(<<Knowledge(F(70), S(<<"c">>)), Knowledge(None, S(<<"d">>))>>,
                                              S(<<"7">>))
    /\ resolved.result.s = <<"*", "*", "F", "o", "u", "n", "d", " ", "2", " ", "k", "n", "o", "w", "l", "e", "d", "g", "e", "(", "s", ")", "*", "*", " ", "(", "b", "a", "s", "e", " ", "I", "D", ":", " ", "7", ")", ":", "\n", "\n", "1", ".", " ", "c", " ", "(", "s", "c", "o", "r", "e", ":", " ", "0", ".", "7", ")", "\n", "2", ".", " ", "d">>


\* ---------------------------------------------------------------------
\* The loader's own resolvers
\* ---------------------------------------------------------------------

\* one call of a resolver of properties/MCPServerProperties.py
ResolveLoader(kind, value, env_var_name, env, default_value) ==
    /\ resolved = NoResolution
    /\ resolved' = [ kind |-> kind, value |-> value, env_var_name |-> env_var_name, env |-> env,
                     default_value |-> default_value,
                     result |-> IF kind = "cfg_int"
                                THEN cfg_get_int_property(value, env_var_name, env, default_value)
                                ELSE cfg_get_float_property(value, env_var_name, env, default_value) ]
    /\ UNCHANGED <<phase, document, properties, datasets, tools, call, requests>>

NextLoaderResolver ==
    \E kind \in {"cfg_int", "cfg_float"}, value \in ExplicitValues,
       env_var_name \in EnvNames, env \in EnvValues :
         \E default_value \in DefaultsOf(IF kind = "cfg_int" THEN "int" ELSE "float") :
            ResolveLoader(kind, value, env_var_name, IF env_var_name = S(<<"E">>) THEN env ELSE None,
                          default_value)

SpecLoaderResolver == Init /\ [][NextLoaderResolver]_vars

\* C23: the loader's get_int_property and get_float_property give, for
\* every input, the result of the utils.py function of the same name; in
\* particular an explicit text that parses as a number is returned as that
\* number in preference to the environment variable and the default.
C23_LoaderResolverAgrees ==
    /\ resolved.kind = "cfg_int" =>
         resolved.result = get_int_property(resolved.value, resolved.env_var_name, resolved.env,
                                            resolved.default_value)
    /\ resolved.kind = "cfg_float" =>
         resolved.result = get_float_property(resolved.value, resolved.env_var_name, resolved.env,
                                              resolved.default_value)


\* ---------------------------------------------------------------------
\* A second load
\* ---------------------------------------------------------------------

\* load called again after a load that succeeded, on the same instance or
\* (fresh) on a new one: a new instance starts from the class attributes,
\* but `datasets` is the one dict of the class, which no load empties
Reload(doc, fresh) ==
    /\ phase = "serving"
    /\ document' = doc
    /\ IF doc.kind \in {"missing", "unparsable"}
       THEN /\ phase' = "failed"
            /\ properties' = IF fresh THEN DefaultProperties ELSE properties
            /\ UNCHANGED datasets
       ELSE IF doc.kind = "empty"
       THEN /\ phase' = "reloaded"
            /\ properties' = IF fresh THEN DefaultProperties ELSE properties
            /\ UNCHANGED datasets
       ELSE LET r == _load_datasets(datasets, doc)
            IN /\ properties' = _load_properties(IF fresh THEN DefaultProperties ELSE properties, doc)
               /\ datasets' = r.reg
               /\ phase' = IF r.raised \/ r.reg = <<>> THEN "failed" ELSE "reloaded"
    /\ UNCHANGED <<tools, call, requests, resolved>>

\* documents of a first and of a second load: up to two complete datasets
\* (static A behind a, static B behind b, dynamic behind a), the listing
\* tool on or not mentioned; and an empty document
ReloadEntryPool ==
    { Entry(Absent, Absent, S(<<"A">>), Absent, S(<<"a">>), Description),
      Entry(Absent, Absent, S(<<"B">>), Absent, S(<<"b">>), Description),
      Entry(Absent, B(TRUE), Absent, Absent, S(<<"a">>), Description) }

ReloadDocuments ==
    { [NoDocument EXCEPT !.kind = k] : k \in {"missing", "empty"} }
    \cup { Document("map", Absent, lbe, Absent, Absent, Absent, es) :
             lbe \in {Absent, B(TRUE)},
             es \in UNION { [1..n -> ReloadEntryPool] : n \in 1..2 } }

NextReload ==
    \/ \E doc \in ReloadDocuments : Load(doc)
    \/ \E doc \in ReloadDocuments, fresh \in BOOLEAN : Reload(doc, fresh)

SpecReload == Init /\ [][NextReload]_vars

\* C24: after a second load the settings and the registry are those that
\* loading the second document alone produces, nothing of the first load is
\* left, and no two datasets have the same search tool name.
C24_ReloadReplaces ==
    phase = "reloaded" =>
        /\ datasets = _load_datasets(<<>>, document).reg
        /\ properties = _load_properties(DefaultProperties, document)
        /\ \A i, j \in 1..Len(datasets) :
             i # j => datasets[i].ds.search_tool_name # datasets[j].ds.search_tool_name


\* ---------------------------------------------------------------------
\* Documents that define a dataset id more than once
\* ---------------------------------------------------------------------

MaxListed == 3

\* complete static datasets A and B behind tool a or b, with the default
\* top_k or with 5
DuplicateEntryPool ==
    { [Entry(Absent, Absent, id, Absent, n, Description) EXCEPT !.default_top_k = k] :
        id \in Ids, n \in {S(<<"a">>), S(<<"b">>)}, k \in {Absent, I(5)} }

DuplicateDocuments ==
    { Document("map", Absent, Absent, Absent, Absent, Absent, es) :
        es \in UNION { [1..n -> DuplicateEntryPool] : n \in 1..MaxListed } }

NextDuplicate == \E doc \in DuplicateDocuments : Load(doc)

SpecDuplicate == Init /\ [][NextDuplicate]_vars

\* the document defines some dataset id more than once
Redefines(doc) ==
    \E i, j \in 1..Len(doc.datasets) : i < j /\ doc.datasets[i].dataset_id = doc.datasets[j].dataset_id

\* entry j is the last one of the document with its dataset id
LastOfId(doc, j) ==
    \A k \in (j + 1)..Len(doc.datasets) : doc.datasets[k].dataset_id # doc.datasets[j].dataset_id

\* C25: when entries of one document have the same dataset_id, the registry
\* holds after load exactly one entry under that key, it is the later
\* definition, and the keys stand in the order of the document.
C25_LastDefinitionWins ==
    (phase = "serving" /\ document.kind = "map" /\ Redefines(document)) =>
        /\ \A j \in 1..Len(document.datasets) :
             LastOfId(document, j) =>
                 LET e == document.datasets[j]
                     at == {p \in 1..Len(datasets) : datasets[p].key = e.dataset_id.s}
                 IN /\ Cardinality(at) = 1
                    /\ \A p \in at :
                         /\ datasets[p].ds.search_tool_name = e.search_tool_name
                         /\ datasets[p].ds.default_top_k = IntField(e.default_top_k, 3)
        /\ \A p, q \in 1..Len(datasets) :
             p < q => \E i, j \in 1..Len(document.datasets) :
                        /\ i < j
                        /\ document.datasets[i].dataset_id.s = datasets[p].key
                        /\ document.datasets[j].dataset_id.s = datasets[q].key


\* ---------------------------------------------------------------------
\* Claims on the requests of an invocation
\* ---------------------------------------------------------------------

\* C26: an invocation issues at most one outbound request; once the request
\* is out, the next step of the invocation is its end, no further request
\* is issued, and a failed exchange (timeout, network error, outer status
\* other than 200, inner code other than 0) ends it with the classified
\* upstream error.
C26_OneRequestNoRetry ==
    /\ [](requests <= 1)
    /\ [][ call.pc = "await" =>
             /\ call'.pc = "done"
             /\ requests' = requests
             /\ ExchangeError(call'.response) # 0 =>
                  (call'.outcome.error = "ToolAPIError"
                   /\ call'.outcome.code = ExchangeError(call'.response)) ]_vars

\* a search whose request timed out has ended with one request issued
C26_Witness ==
    /\ call.pc = "done"
    /\ call.tool = "search_knowledge"
    /\ requests = 1
    /\ call.response.kind = "timeout"
    /\ call.outcome.error = "ToolAPIError"
    /\ call.outcome.code = 408


\* ---------------------------------------------------------------------
\* Claims on the configuration while serving
\* ---------------------------------------------------------------------

\* the settings and the registry load leaves for a document
LoadedProperties(doc) ==
    IF doc.kind = "map" THEN _load_properties(DefaultProperties, doc) ELSE DefaultProperties
LoadedDatasets(doc) ==
    IF doc.kind = "map" THEN _load_datasets(<<>>, doc).reg ELSE <<>>

C28_PositiveTimeout ==
    Sent =>
        /\ call.request.timeout.t \in {"int", "float"}
        /\ Num(call.request.timeout) > 0
        /\ \/ call.request.timeout = properties.timeout
           \/ call.request.timeout = call.args.timeout


\* ---------------------------------------------------------------------
\* Searches under every top_k
\* ---------------------------------------------------------------------

MaxTopK == 500

\* a query, an id and a top_k of 1..MaxTopK, or no top_k
ProbeArgs ==
    { Args(S(<<"q">>), S(<<"K">>), top_k, Absent, Absent, Absent, Absent, Absent) :
        top_k \in {Absent} \cup { I(k) : k \in 1..MaxTopK } }

NextProbe ==
    \/ \E name \in {<<"a">>, <<"b">>}, args \in ProbeArgs : CallTool(name, args)
    \/ \E resp \in WeightsResponses : Respond(resp)
    \/ Return

SpecProbe == InitSearch /\ [][NextProbe]_vars

PowersOfTwo == { 2 ^ e : e \in 0..10 }

\* the smallest power of two that is at least k
NextPowerOfTwo(k) == CHOOSE p \in PowersOfTwo : p >= k /\ \A q \in PowersOfTwo : q >= k => p <= q

\* the top_k a search works with
EffectiveTopKOf(args, ds) == IF args.top_k.t = "absent" THEN ds.default_top_k ELSE args.top_k

\* C29: with no vector_chunk_size supplied, the top_k of the request body is
\* max(2, the smallest power of two that is at least top_k) for every top_k
\* of 1..500, its page is 1 and its page_size is top_k.
C29_ProbeCount ==
    Retrieving =>
        LET top_k == EffectiveTopKOf(call.args, datasets[call.ds].ds)
            p == NextPowerOfTwo(top_k.n)
        IN (top_k.n >= 1 /\ top_k.n <= 500) =>
             /\ call.request.top_k = I(IF p > 2 THEN p ELSE 2)
             /\ call.request.page = I(1)
             /\ call.request.page_size = top_k

\* top_k 5 is sent with a probe count of 8
C29_Witness ==
    /\ Retrieving
    /\ call.args.top_k = I(5)
    /\ call.request.top_k = I(8)
    /\ call.request.page = I(1)
    /\ call.request.page_size = I(5)


\* ---------------------------------------------------------------------
\* Documents that mix static and dynamic datasets
\* ---------------------------------------------------------------------

\* a static id spelled like the key of the second dynamic dataset
DatasetOneId == S(<<"_","_","d","a","t","a","s","e","t","_","1","_","_">>)

\* static datasets A (behind a, and redefined behind e) and __dataset_1__
\* (behind b), dynamic datasets behind c and d, and an entry with a blank id
MixedEntryPool ==
    { Entry(Absent, Absent, S(<<"A">>), Absent, S(<<"a">>), Description),
      Entry(Absent, Absent, S(<<"A">>), Absent, S(<<"e">>), Description),
      Entry(Absent, Absent, DatasetOneId, Absent, S(<<"b">>), Description),
      Entry(Absent, B(TRUE), Absent, Absent, S(<<"c">>), Description),
      Entry(Absent, B(TRUE), Absent, Absent, S(<<"d">>), Description),
      Entry(Absent, Absent, S(<<" ">>), Absent, S(<<"f">>), Description) }

MixedDocuments ==
    { Document("map", Absent, Absent, Absent, Absent, Absent, es) :
        es \in UNION { [1..n -> MixedEntryPool] : n \in 1..MaxListed } }

NextMixed == \E doc \in MixedDocuments : Load(doc)

SpecMixed == Init /\ [][NextMixed]_vars

Dynamic(e) == e.id_param_enabled = B(TRUE)

\* entry i is accepted and nothing of the document redefines it: it is
\* complete, no earlier entry has its tool name, and no other static entry
\* has its dataset id
Kept(doc, i) ==
    LET e == doc.datasets[i]
    IN /\ Complete(e)
       /\ \A k \in 1..(i - 1) : doc.datasets[k].search_tool_name # e.search_tool_name
       /\ Dynamic(e) \/ \A j \in 1..Len(doc.datasets) :
                           (j # i /\ ~Dynamic(doc.datasets[j])) => doc.datasets[j].dataset_id # e.dataset_id

\* C30: within one load a dynamic-id dataset is registered under a key no
\* earlier dataset has, so it replaces none: every accepted dataset that the
\* document does not redefine is in the registry after load, a static one
\* under its dataset_id, for any order of static, dynamic, duplicate and
\* discarded entries.
C30_SyntheticKeyFresh ==
    (phase = "serving" /\ document.kind = "map") =>
        \A i \in 1..Len(document.datasets) :
            Kept(document, i) =>
                \E p \in 1..Len(datasets) :
                    /\ datasets[p].ds.search_tool_name = document.datasets[i].search_tool_name
                    /\ datasets[p].ds.id_param_enabled.b = Dynamic(document.datasets[i])
                    /\ Dynamic(document.datasets[i]) \/ datasets[p].key = document.datasets[i].dataset_id.s

====
